---- MODULE Spec2Model ----
(***************************************************************************)
(* A model of the pricing core of matali-pricing: FinancialEngine          *)
(* (financial_engine.py), UnifiedPricingEngine (unified_pricing_engine.py),*)
(* AdvancedPricingEngine (smart_pricing_engine.py) and                     *)
(* SupplierDataProcessor (supplier_data_processor.py).                     *)
(*                                                                         *)
(* Python floats are modelled by exact rationals [n |-> Int, d |-> Int]    *)
(* in lowest terms with d > 0, so every equality below is the equality     *)
(* the source computes "within floating tolerance".  A missing table cell  *)
(* (pandas NaN) is the value NaN, which compares false with everything.    *)
(***************************************************************************)
EXTENDS Integers, Sequences, FiniteSets, TLC

\* ------------------------------------------------------------------------
\* Exact arithmetic standing for Python float arithmetic
\* ------------------------------------------------------------------------

Abs(x) == IF x < 0 THEN -x ELSE x

RECURSIVE Gcd(_, _)
Gcd(a, b) == IF b = 0 THEN a ELSE Gcd(b, a % b)

\* The rational n/d (d # 0) in lowest terms with a positive denominator.
\* A zero denominator is NaN (a missing cell of a table): arithmetic on NaN
\* gives NaN, and the comparisons RLt, RGt below are false on it, as
\* Python's are.
NaN == [n |-> 0, d |-> 0]

Rat(n, d) ==
    IF d = 0 THEN NaN
    ELSE LET g == Gcd(Abs(n), Abs(d))
             s == IF d < 0 THEN -1 ELSE 1
         IN  [n |-> (s * n) \div g, d |-> (s * d) \div g]

IsNaN(a) == a.d = 0 /\ a.n = 0

\* float('inf'): only ever stored and compared, never computed with
Infinity == [n |-> 1, d |-> 0]
IsInf(a) == a.d = 0 /\ a.n # 0

R(i) == [n |-> i, d |-> 1]

RAdd(a, b) == Rat(a.n * b.d + b.n * a.d, a.d * b.d)
RSub(a, b) == Rat(a.n * b.d - b.n * a.d, a.d * b.d)
RMul(a, b) == Rat(a.n * b.n, a.d * b.d)
\* Python's a / b for b # 0 (the callers guard b = 0 themselves)
RDiv(a, b) == Rat(a.n * b.d, a.d * b.n)
RLt(a, b) == a.n * b.d < b.n * a.d
RGt(a, b) == RLt(b, a)
RLe(a, b) == ~IsNaN(a) /\ ~IsNaN(b) /\ ~RLt(b, a)
REq(a, b) == ~IsNaN(a) /\ a = b
RAbs(a) == [n |-> Abs(a.n), d |-> a.d]
RMax(a, b) == IF RLt(a, b) THEN b ELSE a
RMin(a, b) == IF RLt(b, a) THEN b ELSE a

\* ------------------------------------------------------------------------
\* State
\* ------------------------------------------------------------------------

VARIABLES
    price_result,     \* what FinancialEngine.suggest_price last returned
    suppliers,        \* SupplierDataProcessor.suppliers: the supplier table
    sup_args,         \* arguments of the last SupplierDataProcessor call
    sup_costs,        \* the dict calculate_shipping_cost built in that call
    sup_best,         \* what get_best_shipping_supplier returned in that call
    engine,           \* the attributes of the UnifiedPricingEngine object
    engine_args,      \* the last call on the UnifiedPricingEngine: [op, ...]
    engine_result,    \* what that call returned
    adv,              \* the attributes of the AdvancedPricingEngine object
    adv_result,       \* what AdvancedPricingEngine.dynamic_pricing last returned
    fin,              \* the attributes of the FinancialEngine object
    fin_args,         \* the last call on the FinancialEngine: [op, ...]
    fin_result,       \* what that call returned
    cma,              \* the attributes of the CMAPricingModel object
    cma_args,         \* the last call on the CMAPricingModel: [op, ...]
    cma_result,       \* what that call returned
    apm,              \* the attributes of the AdvancedPricingModel object
    apm_args,         \* the last call on the AdvancedPricingModel: [op, ...]
    apm_result,       \* what that call returned
    db,               \* the tables of the DatabaseManager's store
    db_args,          \* the last call on the DatabaseManager: [op, ...]
    db_result,        \* what that call returned
    clock             \* datetime.now(), in seconds

priceVars == <<price_result>>
supVars == <<suppliers, sup_args, sup_costs, sup_best>>
engineVars == <<engine, engine_args, engine_result>>
advVars == <<adv, adv_result>>
finVars == <<fin, fin_args, fin_result>>
cmaVars == <<cma, cma_args, cma_result>>
apmVars == <<apm, apm_args, apm_result>>
dbVars == <<db, db_args, db_result, clock>>
vars == <<priceVars, supVars, engineVars, advVars, finVars, cmaVars, apmVars, dbVars>>

\* Python's None, and the value of a result variable before any call
None == [none |-> TRUE]

\* Python's {} (a dict is a function from its keys)
EmptyDict == [k \in {} |-> None]

\* The objects a specification does not exercise stay as they are here.
PriceIdle == price_result = None
SupplierIdle ==
    suppliers = <<>> /\ sup_args = None /\ sup_costs = <<>> /\ sup_best = None
EngineIdle == engine = None /\ engine_args = None /\ engine_result = None
AdvIdle == adv = None /\ adv_result = None
FinIdle == fin = None /\ fin_args = None /\ fin_result = None
CmaIdle == cma = None /\ cma_args = None /\ cma_result = None
ApmIdle == apm = None /\ apm_args = None /\ apm_result = None
ModelsIdle == FinIdle /\ CmaIdle /\ ApmIdle
DbIdle == db = None /\ db_args = None /\ db_result = None /\ clock = 0

\* ------------------------------------------------------------------------
\* FinancialEngine.suggest_price (financial_engine.py)
\* ------------------------------------------------------------------------

MaxCost == 5
MaxMarginPct == 120

UnitCosts == 0..MaxCost
TargetMargins == 0..MaxMarginPct

\* A margin-on-cost (markup) formula in place of the margin-on-price one.
suggest_price_markup(cost_per_order, target_margin) ==
    LET margin_decimal == RDiv(R(target_margin), R(100))
        suggested_price == RMul(R(cost_per_order), RAdd(R(1), margin_decimal))
        profit_per_order == RSub(suggested_price, R(cost_per_order))
        actual_margin == IF RGt(suggested_price, R(0))
                         THEN RMul(RDiv(profit_per_order, suggested_price), R(100))
                         ELSE R(0)
    IN  [cost |-> R(cost_per_order),
         target_margin_pct |-> R(target_margin),
         suggested_price |-> suggested_price,
         profit_per_order |-> profit_per_order,
         actual_margin_pct |-> actual_margin]

suggest_price(cost_per_order, target_margin) ==
    LET margin_decimal == RDiv(R(target_margin), R(100))
        suggested_price == IF RLt(margin_decimal, R(1))
                           THEN RDiv(R(cost_per_order), RSub(R(1), margin_decimal))
                           ELSE RMul(R(cost_per_order), R(2))
        profit_per_order == RSub(suggested_price, R(cost_per_order))
        actual_margin == IF RGt(suggested_price, R(0))
                         THEN RMul(RDiv(profit_per_order, suggested_price), R(100))
                         ELSE R(0)
    IN  [cost |-> R(cost_per_order),
         target_margin_pct |-> R(target_margin),
         suggested_price |-> suggested_price,
         profit_per_order |-> profit_per_order,
         actual_margin_pct |-> actual_margin]

SuggestPriceCall ==
    \E c \in UnitCosts, m \in TargetMargins :
        price_result' = suggest_price(c, m)

InitPrice == price_result = None /\ SupplierIdle /\ EngineIdle /\ AdvIdle /\ ModelsIdle /\ DbIdle

NextPrice == SuggestPriceCall /\ UNCHANGED <<supVars, engineVars, advVars, finVars, cmaVars, apmVars, dbVars>>

SpecPrice == InitPrice /\ [][NextPrice]_vars

\* C2: for unit_cost >= 0 and 0 <= target_margin_pct < 100 the returned
\* suggested_price satisfies suggested_price * (1 - target_margin_pct/100) =
\* unit_cost, profit_per_order = suggested_price - unit_cost, and
\* actual_margin_pct = profit_per_order / suggested_price * 100, or 0 when the
\* price is 0.
C2_MarginInversion ==
    (price_result # None /\ RLt(price_result.target_margin_pct, R(100))) =>
        LET p == price_result.suggested_price
            m == price_result.target_margin_pct
            c == price_result.cost
        IN  /\ RMul(p, RSub(R(1), RDiv(m, R(100)))) = c
            /\ RAdd(c, price_result.profit_per_order) = p
            /\ IF p = R(0)
               THEN price_result.actual_margin_pct = R(0)
               ELSE RMul(price_result.actual_margin_pct, p)
                        = RMul(price_result.profit_per_order, R(100))

\* A call with a positive cost and a margin strictly inside (0, 100).
C2_Witness ==
    /\ price_result # None
    /\ price_result.cost = R(3)
    /\ price_result.target_margin_pct = R(25)
    /\ price_result.suggested_price = Rat(4, 1)

\* C3: for target_margin_pct >= 100 suggest_price returns unit_cost * 2 and
\* the returned result carries a flag marking it as a degraded estimate.
IsFlaggedDegraded(res) ==
    \E k \in DOMAIN res : k \in {"degraded", "degraded_estimate", "warning", "flag", "is_fallback"}

C3_FallbackIsFlagged ==
    (price_result # None /\ RLe(R(100), price_result.target_margin_pct)) =>
        /\ price_result.suggested_price = RMul(price_result.cost, R(2))
        /\ IsFlaggedDegraded(price_result)

\* ------------------------------------------------------------------------
\* SupplierDataProcessor (supplier_data_processor.py)
\* ------------------------------------------------------------------------

MaxSuppliers == 2

SupplierNames == {"A", "B"}

\* The rate cards a supplier row may carry.  A rate of 0 means "does not
\* serve the region"; NaN is an empty cell of the table; a cod_fee below 1 is
\* a fraction of the order value, otherwise an amount.
RateCards ==
    { [service_type |-> "shipping",
       price_inside_riyadh |-> R(10), price_outside_riyadh |-> R(15),
       cod_fee |-> R(5), network_fee |-> R(0),
       weight_limit |-> R(5), extra_kg_price |-> R(2)],
      [service_type |-> "shipping",
       price_inside_riyadh |-> R(10), price_outside_riyadh |-> R(15),
       cod_fee |-> Rat(1, 50), network_fee |-> R(2),
       weight_limit |-> R(5), extra_kg_price |-> R(0)],
      [service_type |-> "shipping",
       price_inside_riyadh |-> R(12), price_outside_riyadh |-> R(0),
       cod_fee |-> R(5), network_fee |-> R(0),
       weight_limit |-> R(5), extra_kg_price |-> R(2)],
      [service_type |-> "shipping",
       price_inside_riyadh |-> NaN, price_outside_riyadh |-> R(12),
       cod_fee |-> Rat(1, 50), network_fee |-> R(2),
       weight_limit |-> R(5), extra_kg_price |-> R(0)],
      [service_type |-> "storage",
       price_inside_riyadh |-> R(1), price_outside_riyadh |-> R(1),
       cod_fee |-> R(0), network_fee |-> R(0),
       weight_limit |-> R(5), extra_kg_price |-> R(0)] }

SupplierRows ==
    { [supplier_name |-> nm, service_type |-> rc.service_type,
       price_inside_riyadh |-> rc.price_inside_riyadh,
       price_outside_riyadh |-> rc.price_outside_riyadh,
       cod_fee |-> rc.cod_fee, network_fee |-> rc.network_fee,
       weight_limit |-> rc.weight_limit, extra_kg_price |-> rc.extra_kg_price]
      : nm \in SupplierNames, rc \in RateCards }

SupplierTables ==
    UNION { [1..k -> SupplierRows] : k \in 0..MaxSuppliers }

\* "AlRiyadh" stands for a city string containing the Arabic word for
\* Riyadh, "Jeddah" for one that does not, "" for a call without a city
\* (None or the empty string, both false in "if city").
Cities == {"AlRiyadh", "Jeddah", ""}
Weights == {3, 7}
OrderValues == {100}

\* 'رياض' in str(city).lower() if city else False
IsRiyadh(city) == city = "AlRiyadh"

\* A result that keeps the first entry stored under a name
DictPut_keepFirst(results, entry) ==
    IF \E i \in 1..Len(results) : results[i].supplier_name = entry.supplier_name
    THEN results
    ELSE Append(results, entry)

\* results[name] = entry on a Python dict: a new key goes last, an existing
\* key keeps its place and takes the new value.
DictPut(results, entry) ==
    IF \E i \in 1..Len(results) : results[i].supplier_name = entry.supplier_name
    THEN [i \in 1..Len(results) |->
            IF results[i].supplier_name = entry.supplier_name
            THEN entry ELSE results[i]]
    ELSE Append(results, entry)

\* The loop body with the network fee left out of the total.
ShippingEntry_noNetworkFee(supplier, base_price, weight, order_value, is_cod, is_riyadh) ==
    LET cod_fee == IF is_cod
                   THEN IF RLt(supplier.cod_fee, R(1))
                        THEN RMul(R(order_value), supplier.cod_fee)
                        ELSE supplier.cod_fee
                   ELSE R(0)
        weight_fee == IF RGt(R(weight), supplier.weight_limit)
                      THEN RMul(RSub(R(weight), supplier.weight_limit),
                                supplier.extra_kg_price)
                      ELSE R(0)
    IN  [supplier_name |-> supplier.supplier_name,
         base_price |-> base_price,
         cod_fee |-> cod_fee,
         network_fee |-> supplier.network_fee,
         weight_fee |-> weight_fee,
         total_cost |-> RAdd(RAdd(base_price, cod_fee), weight_fee),
         service_type |-> "shipping",
         location |-> IF is_riyadh THEN "inside_riyadh" ELSE "outside_riyadh"]

\* The loop body for one supplier row that is not skipped.
ShippingEntry(supplier, base_price, weight, order_value, is_cod, is_riyadh) ==
    LET cod_fee == IF is_cod
                   THEN IF RLt(supplier.cod_fee, R(1))
                        THEN RMul(R(order_value), supplier.cod_fee)
                        ELSE supplier.cod_fee
                   ELSE R(0)
        network_fee == supplier.network_fee
        weight_fee == IF RGt(R(weight), supplier.weight_limit)
                      THEN RMul(RSub(R(weight), supplier.weight_limit),
                                supplier.extra_kg_price)
                      ELSE R(0)
        total_cost == RAdd(RAdd(RAdd(base_price, cod_fee), network_fee), weight_fee)
    IN  [supplier_name |-> supplier.supplier_name,
         base_price |-> base_price,
         cod_fee |-> cod_fee,
         network_fee |-> network_fee,
         weight_fee |-> weight_fee,
         total_cost |-> total_cost,
         service_type |-> "shipping",
         location |-> IF is_riyadh THEN "inside_riyadh" ELSE "outside_riyadh"]

\* if base_price == 0: continue
SkipsSupplier(base_price) == base_price = R(0)

RECURSIVE ShippingLoop(_, _, _, _, _, _, _)
ShippingLoop(rows, i, results, weight, order_value, is_cod, is_riyadh) ==
    IF i > Len(rows) THEN results
    ELSE LET supplier == rows[i]
             base_price == IF is_riyadh THEN supplier.price_inside_riyadh
                           ELSE supplier.price_outside_riyadh
         IN  IF SkipsSupplier(base_price)
             THEN ShippingLoop(rows, i + 1, results, weight, order_value, is_cod, is_riyadh)
             ELSE ShippingLoop(rows, i + 1,
                      DictPut(results,
                              ShippingEntry(supplier, base_price, weight,
                                            order_value, is_cod, is_riyadh)),
                      weight, order_value, is_cod, is_riyadh)

IsShippingRow(row) == row.service_type = "shipping"

\* Returns the dict as the sequence of its entries in insertion order.  A
\* processor built without a table (suppliers is None) takes the same early
\* return as one with an empty table, which stands for both here.
calculate_shipping_cost(sups, city, weight, order_value, is_cod) ==
    IF Len(sups) = 0 THEN <<>>
    ELSE LET shipping_suppliers == SelectSeq(sups, IsShippingRow)
         IN  IF Len(shipping_suppliers) = 0 THEN <<>>
             ELSE ShippingLoop(shipping_suppliers, 1, <<>>, weight, order_value,
                               is_cod, IsRiyadh(city))

\* key=lambda x: x[1]['total_cost'], compared with <
KeyLt(a, b) == RLt(a.total_cost, b.total_cost)

\* list.sort of CPython on fewer than 64 items: the leading run is found
\* (count_run; a strictly descending run is reversed), then every later item
\* is placed by binary insertion (binarysort).  Only < is used.
RECURSIVE RunEnd(_, _, _)
RunEnd(s, i, descending) ==
    IF i = Len(s) THEN i
    ELSE IF descending
         THEN IF KeyLt(s[i + 1], s[i]) THEN RunEnd(s, i + 1, descending) ELSE i
         ELSE IF KeyLt(s[i + 1], s[i]) THEN i ELSE RunEnd(s, i + 1, descending)

ReversePrefix(s, n) ==
    [i \in 1..Len(s) |-> IF i <= n THEN s[n + 1 - i] ELSE s[i]]

\* The place (0-based) binarysort finds for pivot in the sorted s[l..r-1].
RECURSIVE BinaryPlace(_, _, _, _)
BinaryPlace(s, pivot, l, r) ==
    LET p == l + ((r - l) \div 2)
        l2 == IF KeyLt(pivot, s[p + 1]) THEN l ELSE p + 1
        r2 == IF KeyLt(pivot, s[p + 1]) THEN p ELSE r
    IN  IF l2 < r2 THEN BinaryPlace(s, pivot, l2, r2) ELSE l2

RECURSIVE BinarySort(_, _)
BinarySort(s, start) ==
    IF start >= Len(s) THEN s
    ELSE LET pivot == s[start + 1]
             l == BinaryPlace(s, pivot, 0, start)
             moved == [i \in 1..Len(s) |->
                        IF i <= l THEN s[i]
                        ELSE IF i = l + 1 THEN pivot
                        ELSE IF i <= start + 1 THEN s[i - 1]
                        ELSE s[i]]
         IN  BinarySort(moved, start + 1)

PySorted(s) ==
    IF Len(s) < 2 THEN s
    ELSE LET descending == KeyLt(s[2], s[1])
             n == RunEnd(s, 2, descending)
             run == IF descending THEN ReversePrefix(s, n) ELSE s
         IN  BinarySort(run, n)

get_best_shipping_supplier(sups, city, weight, order_value, is_cod) ==
    LET all_costs == calculate_shipping_cost(sups, city, weight, order_value, is_cod)
    IN  IF Len(all_costs) = 0 THEN None
        ELSE PySorted(all_costs)[1]

SupplierArgs ==
    [city : Cities, weight : Weights,
     order_value : OrderValues, is_cod : BOOLEAN]

CalculateShippingCostCall ==
    \E a \in SupplierArgs :
        /\ sup_args' = a
        /\ sup_costs' = calculate_shipping_cost(suppliers, a.city, a.weight,
                                                a.order_value, a.is_cod)
        /\ sup_best' = None
        /\ UNCHANGED suppliers

GetBestShippingSupplierCall ==
    \E a \in SupplierArgs :
        /\ sup_args' = a
        /\ sup_costs' = calculate_shipping_cost(suppliers, a.city, a.weight,
                                                a.order_value, a.is_cod)
        /\ sup_best' = get_best_shipping_supplier(suppliers, a.city, a.weight,
                                                  a.order_value, a.is_cod)
        /\ UNCHANGED suppliers

InitSupplier ==
    /\ suppliers \in SupplierTables
    /\ sup_args = None /\ sup_costs = <<>> /\ sup_best = None
    /\ PriceIdle /\ EngineIdle /\ AdvIdle /\ ModelsIdle /\ DbIdle

NextSupplier ==
    \/ CalculateShippingCostCall /\ UNCHANGED <<priceVars, engineVars, advVars, finVars, cmaVars, apmVars, dbVars>>
    \/ GetBestShippingSupplierCall /\ UNCHANGED <<priceVars, engineVars, advVars, finVars, cmaVars, apmVars, dbVars>>

SpecSupplier == InitSupplier /\ [][NextSupplier]_vars

\* ---- claims about SupplierDataProcessor ----

\* Lexicographic order of the supplier names of the model
NameRank(nm) == IF nm = "A" THEN 1 ELSE 2

CostsDefined == \A i \in 1..Len(sup_costs) : ~IsNaN(sup_costs[i].total_cost)

\* C7: get_best_shipping_supplier returns the candidate with the minimum
\* total_cost, and among candidates of equal minimum total_cost the one with
\* the lexicographically smallest supplier name (whatever the row order).
C7_MinCostTieByName ==
    (sup_best # None /\ CostsDefined) =>
        \A i \in 1..Len(sup_costs) :
            \/ RLt(sup_best.total_cost, sup_costs[i].total_cost)
            \/ /\ sup_best.total_cost = sup_costs[i].total_cost
               /\ NameRank(sup_best.supplier_name) <= NameRank(sup_costs[i].supplier_name)

\* The rate of a row for the region of the last call
RegionRate(row) ==
    IF IsRiyadh(sup_args.city) THEN row.price_inside_riyadh
    ELSE row.price_outside_riyadh

Unserved(rate) == IsNaN(rate) \/ rate = R(0)

\* C8: a supplier whose rate for the requested region is zero or undefined is
\* excluded: no entry of calculate_shipping_cost's result, and no supplier
\* returned by get_best_shipping_supplier, rests on such a rate.
C8_UnservedExcluded ==
    sup_args # None =>
        /\ \A i \in 1..Len(sup_costs) : ~Unserved(sup_costs[i].base_price)
        /\ sup_best # None => ~Unserved(sup_best.base_price)

\* The table row an entry of the result was computed from: the last shipping
\* row of that name that the loop did not skip.
SourceRows(nm) ==
    { i \in 1..Len(suppliers) :
        /\ suppliers[i].supplier_name = nm
        /\ suppliers[i].service_type = "shipping"
        /\ RegionRate(suppliers[i]) # R(0) }

SourceRow(nm) ==
    suppliers[CHOOSE i \in SourceRows(nm) : \A j \in SourceRows(nm) : j <= i]

ExtraWeightFee(row) ==
    RMul(RMax(R(0), RSub(R(sup_args.weight), row.weight_limit)), row.extra_kg_price)

CodComponent(row) ==
    IF ~sup_args.is_cod THEN R(0)
    ELSE IF RLt(row.cod_fee, R(1))
         THEN RMul(R(sup_args.order_value), row.cod_fee)
         ELSE row.cod_fee

L2Keywords(label) ==
    CASE label = "exp_tajhiz"    -> {"tajhiz"}
      [] label = "exp_shahn"     -> {"shahn"}
      [] label = "exp_takhzin"   -> {"takhzin"}
      [] label = "exp_istilam"   -> {"istilam"}
      [] label = "exp_gna"       -> {"gna"}
      [] label = "shahn_takhzin" -> {"shahn", "takhzin"}
      [] label = "irad_tajhiz"   -> {"irad_tajhiz", "tajhiz"}
      [] label = "irad_shahn"    -> {"irad_shahn", "shahn"}
      [] label = "irad_takhzin"  -> {"irad_takhzin", "takhzin"}
      [] label = "irad_istilam"  -> {"irad_istilam", "istilam"}
      [] OTHER                   -> {}

\* pnl['Account Level 2'].str.contains(kw, na=False, case=False)
L2Contains(row, kw) == kw \in L2Keywords(row.l2)

\* pnl['Account Level 1'].str.contains('income' / 'expense', case=False)
L1Contains(row, kw) == row.l1 = kw

RowsWithL2(rows, kw) == SelectSeq(rows, LAMBDA r : L2Contains(r, kw))
RowsWithL1(rows, kw) == SelectSeq(rows, LAMBDA r : L1Contains(r, kw))
RowsOfCustomer(rows, c) == SelectSeq(rows, LAMBDA r : r.Customer = c)

\* Series.sum(): 0 for no rows
RECURSIVE SumAmounts(_)
SumAmounts(rows) ==
    IF Len(rows) = 0 THEN R(0)
    ELSE RAdd(rows[1].net_amount, SumAmounts(Tail(rows)))

\* np.mean, np.max, np.min of the amounts of a non-empty selection
MeanAmount(rows) == RDiv(SumAmounts(rows), R(Len(rows)))

RECURSIVE MaxAmount(_)
MaxAmount(rows) ==
    IF Len(rows) = 1 THEN rows[1].net_amount
    ELSE RMax(rows[1].net_amount, MaxAmount(Tail(rows)))

RECURSIVE MinAmount(_)
MinAmount(rows) ==
    IF Len(rows) = 1 THEN rows[1].net_amount
    ELSE RMin(rows[1].net_amount, MinAmount(Tail(rows)))

MeanCostOr(rows, kw, default) ==
    LET sel == RowsWithL2(rows, kw)
    IN  IF Len(sel) > 0 THEN RAbs(MeanAmount(sel)) ELSE R(default)

analyze_costs_from_pnl(pnl_data) ==
    IF pnl_data = None THEN EmptyDict
    ELSE [processing |-> MeanCostOr(pnl_data.rows, "tajhiz", 50),
          shipping   |-> MeanCostOr(pnl_data.rows, "shahn", 30),
          storage    |-> MeanCostOr(pnl_data.rows, "takhzin", 20),
          receiving  |-> MeanCostOr(pnl_data.rows, "istilam", 15)]

calculate_margins_from_pnl(pnl_data) ==
    IF pnl_data = None
    THEN [historical_margin |-> R(20), total_income |-> R(0), total_expense |-> R(0)]
    ELSE LET total_income == RAbs(SumAmounts(RowsWithL1(pnl_data.rows, "income")))
             total_expense == RAbs(SumAmounts(RowsWithL1(pnl_data.rows, "expense")))
             margin == IF RGt(total_income, R(0))
                       THEN RMul(RDiv(RSub(total_income, total_expense), total_income),
                                 R(100))
                       ELSE R(20)
         IN  [historical_margin |-> RMax(R(0), margin),
              total_income |-> total_income,
              total_expense |-> total_expense,
              net_profit |-> RSub(total_income, total_expense)]

ServiceStat(rows, search_term) ==
    LET income == RowsWithL2(rows, search_term)
    IN  IF Len(income) > 0
        THEN [avg |-> RAbs(MeanAmount(income)),
              max |-> RAbs(MaxAmount(income)),
              min |-> RAbs(MinAmount(income)),
              count |-> Len(income)]
        ELSE [avg |-> R(100), max |-> R(200), min |-> R(50), count |-> 0]

calculate_service_stats_from_pnl(pnl_data) ==
    IF pnl_data = None THEN EmptyDict
    ELSE [processing |-> ServiceStat(pnl_data.rows, "irad_tajhiz"),
          shipping   |-> ServiceStat(pnl_data.rows, "irad_shahn"),
          storage    |-> ServiceStat(pnl_data.rows, "irad_takhzin"),
          receiving  |-> ServiceStat(pnl_data.rows, "irad_istilam")]

get_customer_tier(margin) ==
    IF RGt(margin, R(30)) THEN "VIP"
    ELSE IF RGt(margin, R(20)) THEN "Premium"
    ELSE IF RGt(margin, R(10)) THEN "Good"
    ELSE IF RGt(margin, R(0)) THEN "Standard"
    ELSE "Loss"

\* pnl['Customer'].unique() without the missing and the empty names
LedgerCustomers(rows) ==
    { rows[i].Customer : i \in 1..Len(rows) } \ {""}

CustomerIncome(rows, c) ==
    RAbs(SumAmounts(RowsWithL1(RowsOfCustomer(rows, c), "income")))

CustomerExpense(rows, c) ==
    RAbs(SumAmounts(RowsWithL1(RowsOfCustomer(rows, c), "expense")))

CustomerMargin(rows, c) ==
    RMul(RDiv(RSub(CustomerIncome(rows, c), CustomerExpense(rows, c)),
              CustomerIncome(rows, c)),
         R(100))

analyze_customer_profitability(pnl_data) ==
    IF pnl_data = None THEN EmptyDict
    ELSE LET rows == pnl_data.rows
             kept == { c \in LedgerCustomers(rows) : RGt(CustomerIncome(rows, c), R(0)) }
         IN  [c \in kept |->
                [income |-> CustomerIncome(rows, c),
                 expense |-> CustomerExpense(rows, c),
                 profit |-> RSub(CustomerIncome(rows, c), CustomerExpense(rows, c)),
                 margin |-> CustomerMargin(rows, c),
                 tier |-> get_customer_tier(CustomerMargin(rows, c))]]

\* round(x, 2): to the nearest hundredth, a tie to the even hundredth
Round2(x) ==
    IF IsNaN(x) THEN NaN
    ELSE LET q == (100 * x.n) \div x.d
             rem == 100 * x.n - q * x.d
             up == 2 * rem > x.d \/ (2 * rem = x.d /\ q % 2 = 1)
         IN  Rat(IF up THEN q + 1 ELSE q, 100)

\* ------------------------------------------------------------------------
\* Orders tables (financial_engine.py, order_data_processor.py)
\* ------------------------------------------------------------------------
\* An orders table is [count, columns, rows]: count = len(df), columns the
\* set of column labels, rows the sequence of rows, each a function from the
\* column labels to cells.  A cell read from the store is text: [date |-> m]
\* is text that parses as the timestamp m (in minutes), [text |-> s] any
\* other text, Missing an empty cell.  [t |-> m] is a parsed timestamp, NaT
\* a missing one, [minutes |-> r] a duration, NaN a missing number.
Missing == [missing |-> TRUE]
NaT == [nat |-> TRUE]

OrdersFrame(columns, rows) == [count |-> Len(rows), columns |-> columns, rows |-> rows]

\* pd.to_datetime(cell): text that is not a date raises
ParsesAsDate(cell) == cell = Missing \/ cell = NaT \/ DOMAIN cell \in {{"date"}, {"t"}}

\* pd.to_datetime(cell) and pd.to_datetime(cell, errors='coerce')
to_datetime(cell) ==
    IF DOMAIN cell = {"date"} THEN [t |-> cell.date]
    ELSE IF DOMAIN cell = {"t"} THEN cell
    ELSE NaT

\* packed - created: NaT when either side is NaT
Timedelta(packed, created) ==
    IF packed = NaT \/ created = NaT THEN NaT
    ELSE [minutes |-> R(packed.t - created.t)]

\* df[column] = values: the column is added to, or replaced in, the table
SetColumn(df, column, Value(_)) ==
    [df EXCEPT !.columns = @ \cup {column},
               !.rows = [i \in 1..Len(@) |->
                           [c \in DOMAIN @[i] \cup {column} |->
                               IF c = column THEN Value(@[i]) ELSE @[i][c]]]]

\* orders_df['DESTINATION CITY'].str.contains('رياض|Riyadh', case=False, na=False)
InsideRiyadh(row) == row["DESTINATION CITY"] = [text |-> "Riyadh"]

RECURSIVE SumMinutes(_)
SumMinutes(cells) ==
    IF Len(cells) = 0 THEN R(0)
    ELSE RAdd(cells[1].minutes, SumMinutes(Tail(cells)))

\* series.mean() of a duration column, NaT skipped; NaN when nothing is left
MeanMinutes(cells) ==
    LET valid == SelectSeq(cells, LAMBDA cell : cell # NaT)
    IN  IF Len(valid) = 0 THEN NaN ELSE RDiv(SumMinutes(valid), R(Len(valid)))

ColumnOf(df, column) == [i \in 1..Len(df.rows) |-> df.rows[i][column]]

DefaultOrdersStats ==
    [total_orders |-> 0, monthly_orders |-> 0, inside_riyadh_orders |-> 0,
     outside_riyadh_orders |-> 0, inside_riyadh_percentage |-> R(50),
     avg_order_weight |-> Rat(5, 2), avg_skus_per_order |-> R(3),
     return_rate |-> R(5), avg_processing_hours |-> R(2)]

HasTimes(orders_df) == {"ORDER CREATED AT", "ORDER PACKED AT"} \subseteq orders_df.columns

\* the statements of load_orders_stats that can raise: the city column is
\* missing or is not text, or a time cell is text that is not a date
OrdersStatsRaises(orders_df) ==
    \/ "DESTINATION CITY" \notin orders_df.columns
    \/ \E i \in 1..Len(orders_df.rows) :
          DOMAIN orders_df.rows[i]["DESTINATION CITY"] \notin {{"text"}, {"missing"}}
    \/ /\ HasTimes(orders_df)
       /\ \E i \in 1..Len(orders_df.rows), c \in {"ORDER CREATED AT", "ORDER PACKED AT"} :
             ~ParsesAsDate(orders_df.rows[i][c])

\* orders_df['processing_time'] = pd.to_datetime(packed) - pd.to_datetime(created)
WithProcessingTime(orders_df) ==
    SetColumn(orders_df, "processing_time",
              LAMBDA row : Timedelta(to_datetime(row["ORDER PACKED AT"]),
                                     to_datetime(row["ORDER CREATED AT"])))

\* the table object passed to load_orders_stats as the call leaves it
OrdersAfterStats(orders_df) ==
    IF ~OrdersStatsRaises(orders_df) /\ HasTimes(orders_df)
    THEN WithProcessingTime(orders_df) ELSE orders_df

\* FinancialEngine.load_orders_stats: the stats dict it returns
load_orders_stats(orders_df) ==
    IF OrdersStatsRaises(orders_df) THEN DefaultOrdersStats
    ELSE
    LET total_orders == Len(orders_df.rows)
        inside_riyadh == Len(SelectSeq(orders_df.rows, InsideRiyadh))
        returns == Len(SelectSeq(orders_df.rows,
                          LAMBDA row : row["RETURN STATUS"] # Missing))
        return_rate ==
            IF "RETURN STATUS" \in orders_df.columns
            THEN IF total_orders > 0
                 THEN RMul(RDiv(R(returns), R(total_orders)), R(100)) ELSE R(0)
            ELSE R(5)
        avg_processing_hours ==
            IF HasTimes(orders_df)
            THEN LET mean == MeanMinutes(ColumnOf(WithProcessingTime(orders_df),
                                                  "processing_time"))
                 IN  IF IsNaN(mean) THEN NaN ELSE RDiv(mean, R(60))
            ELSE R(2)
    IN  [total_orders |-> total_orders,
         monthly_orders |-> total_orders \div 12,
         inside_riyadh_orders |-> inside_riyadh,
         outside_riyadh_orders |-> total_orders - inside_riyadh,
         inside_riyadh_percentage |->
             IF total_orders > 0
             THEN RMul(RDiv(R(inside_riyadh), R(total_orders)), R(100)) ELSE R(50),
         avg_order_weight |-> Rat(5, 2),
         avg_skus_per_order |-> R(3),
         return_rate |-> return_rate,
         avg_processing_hours |-> avg_processing_hours]

\* 'AT' in col.upper() or 'DATE' in col.upper(), for the column labels of the
\* model: DESTINATION and STATUS contain AT as CREATED AT and PACKED AT do.
IsDateColumn(col) ==
    col \in {"ORDER CREATED AT", "ORDER PACKED AT", "DESTINATION CITY", "RETURN STATUS"}

\* df[col] = pd.to_datetime(df[col], errors='coerce') for every date column
ConvertDates(df) ==
    [df EXCEPT !.rows = [i \in 1..Len(@) |->
        [c \in DOMAIN @[i] |->
            IF IsDateColumn(c) THEN to_datetime(@[i][c]) ELSE @[i][c]]]]

\* The day in minutes, above which a preparation time is taken as an outlier
MaxPrepMinutes == 1440

\* (packed - created).dt.total_seconds() / 60, then NaN where the value is
\* below 0 and NaN where it is above 1440
PrepTimeMinutes(row) ==
    LET delta == Timedelta(row["ORDER PACKED AT"], row["ORDER CREATED AT"])
    IN  IF delta = NaT THEN NaN
        ELSE IF RLt(delta.minutes, R(0)) THEN NaN
        ELSE IF RGt(delta.minutes, R(MaxPrepMinutes)) THEN NaN
        ELSE delta.minutes

\* OrderDataProcessor.clean_orders_data: the table it is passed, changed in
\* place, is the table it returns.  The model's tables carry no weight and
\* no amount column.
clean_orders_data(df) ==
    LET dated == ConvertDates(df)
    IN  IF HasTimes(dated)
        THEN SetColumn(dated, "prep_time_minutes", PrepTimeMinutes)
        ELSE dated

RECURSIVE SumSeqR(_)
SumSeqR(values) ==
    IF Len(values) = 0 THEN R(0) ELSE RAdd(values[1], SumSeqR(Tail(values)))

RECURSIVE MinSeqR(_)
MinSeqR(values) ==
    IF Len(values) = 1 THEN values[1] ELSE RMin(values[1], MinSeqR(Tail(values)))

RECURSIVE MaxSeqR(_)
MaxSeqR(values) ==
    IF Len(values) = 1 THEN values[1] ELSE RMax(values[1], MaxSeqR(Tail(values)))

NoPrepTime ==
    [avg_prep_time |-> R(0), median_prep_time |-> R(0), min_prep_time |-> R(0),
     max_prep_time |-> R(0), total_orders_analyzed |-> 0]

\* orders_data.dropna(subset=['prep_time_minutes'])['prep_time_minutes']
ValidPrepTimes(orders_data) ==
    SelectSeq(ColumnOf(orders_data, "prep_time_minutes"), LAMBDA value : ~IsNaN(value))

\* UnifiedPricingEngine._analyze_prep_time.  The median, the standard
\* deviation, the table by customer and the distribution are further
\* aggregates of the same valid_data; the model keeps the mean, the extremes
\* and the number of values.
analyze_prep_time(orders_data) ==
    IF orders_data = None \/ "prep_time_minutes" \notin orders_data.columns
    THEN NoPrepTime
    ELSE LET valid_data == ValidPrepTimes(orders_data)
         IN  IF Len(valid_data) = 0 THEN NoPrepTime
             ELSE [avg_prep_time |-> RDiv(SumSeqR(valid_data), R(Len(valid_data))),
                   min_prep_time |-> MinSeqR(valid_data),
                   max_prep_time |-> MaxSeqR(valid_data),
                   total_orders_analyzed |-> Len(valid_data)]

\* ------------------------------------------------------------------------
\* UnifiedPricingEngine (unified_pricing_engine.py)
\* ------------------------------------------------------------------------
\* The object after __init__ on a data directory that holds no saved files.
\* advanced_cost_allocation is an attribute that exists only once
\* calculate_advanced_cost_allocation has stored a table; None stands for
\* its absence.
UnifiedPricingEngine ==
    [capacity_data |-> None,
     pricing_tiers |-> None,
     pnl_data |-> None,
     orders_data |-> None,
     customers_data |-> None,
     cost_analysis |-> EmptyDict,
     profit_margins |-> EmptyDict,
     service_stats |-> EmptyDict,
     customer_profitability |-> EmptyDict,
     advanced_cost_allocation |-> None]

\* The integrate_* methods return the engine itself.
Self == [self |-> TRUE]

\* dict.update, dict[key] = value, and row.get(key, default)
DictUpdate(old, new) ==
    [k \in DOMAIN old \cup DOMAIN new |-> IF k \in DOMAIN new THEN new[k] ELSE old[k]]

DictSet(dict, key, value) ==
    [k \in DOMAIN dict \cup {key} |-> IF k = key THEN value ELSE dict[k]]

RowGet(row, key, default) == IF key \in DOMAIN row THEN row[key] ELSE default

\* A ledger integration that merges the rebuilt entries into the table
\* instead of replacing it
integrate_pnl_data_merging(self, pnl_df) ==
    LET rebuilt == analyze_customer_profitability(pnl_df)
        previous == self.customer_profitability
    IN  [self EXCEPT !.pnl_data = pnl_df,
                     !.cost_analysis = analyze_costs_from_pnl(pnl_df),
                     !.profit_margins = calculate_margins_from_pnl(pnl_df),
                     !.service_stats = calculate_service_stats_from_pnl(pnl_df),
                     !.customer_profitability =
                         [c \in DOMAIN previous \cup DOMAIN rebuilt |->
                             IF c \notin DOMAIN rebuilt THEN previous[c]
                             ELSE IF c \notin DOMAIN previous THEN rebuilt[c]
                             ELSE DictUpdate(previous[c], rebuilt[c])]]

integrate_pnl_data(self, pnl_df) ==
    [self EXCEPT !.pnl_data = pnl_df,
                 !.cost_analysis = analyze_costs_from_pnl(pnl_df),
                 !.profit_margins = calculate_margins_from_pnl(pnl_df),
                 !.service_stats = calculate_service_stats_from_pnl(pnl_df),
                 !.customer_profitability = analyze_customer_profitability(pnl_df)]

\* The loop of integrate_customers_data over the rows of the customers table
RECURSIVE UpdateCustomers(_, _)
UpdateCustomers(profitability, rows) ==
    IF Len(rows) = 0 THEN profitability
    ELSE LET row == Head(rows)
             customer == row.customer_name
             old == IF customer \in DOMAIN profitability
                    THEN profitability[customer] ELSE EmptyDict
             new == DictUpdate(old,
                        [type |-> RowGet(row, "type", "Standard"),
                         tier |-> RowGet(row, "tier", "Standard"),
                         monthly_volume |-> RowGet(row, "monthly_volume", 0),
                         contract_type |-> RowGet(row, "contract_type", "Monthly")])
         IN  UpdateCustomers(DictSet(profitability, customer, new), Tail(rows))

integrate_customers_data(self, customers_df) ==
    [self EXCEPT !.customers_data = customers_df,
                 !.customer_profitability =
                     UpdateCustomers(self.customer_profitability, customers_df.rows)]

\* capacity_df gets the column cost_per_unit when it has both other columns
integrate_capacity_data(self, capacity_df) ==
    [self EXCEPT !.capacity_data =
        [rows |-> [i \in 1..Len(capacity_df.rows) |->
            LET row == capacity_df.rows[i]
                cap == IF row.capacity_per_month = 0 THEN 1 ELSE row.capacity_per_month
            IN  DictSet(row, "cost_per_unit", RDiv(row.monthly_cost, R(cap)))]]]

\* integrate_orders_data keeps the table and the analysis of its
\* preparation times (an attribute that exists from the first call on); the
\* other analyses it derives from the columns (regional_analysis, market
\* data) are attributes no operation below reads.
integrate_orders_data(self, orders_df) ==
    DictSet([self EXCEPT !.orders_data = orders_df],
            "prep_time_analysis", analyze_prep_time(orders_df))

\* The cost of a category taken from the expense rows only
LedgerCost_expensesOnly(pnl, kw) ==
    RAbs(SumAmounts(RowsWithL1(RowsWithL2(pnl.rows, kw), "expense")))

\* abs(pnl[pnl['Account Level 2'].str.contains(kw)]['net_amount_clean'].sum()).
\* The amount column is 'net_amount' (the first column whose name contains
\* 'amount' or 'net'); its cleaning, str -> float of a numeric cell, gives the
\* cell's value back.
LedgerCost(pnl, kw) == RAbs(SumAmounts(RowsWithL2(pnl.rows, kw)))

\* len(self.orders_data) if self.orders_data is not None else 0
OrdersCount(self) == IF self.orders_data = None THEN 0 ELSE self.orders_data.count

\* capacity[capacity_col].sum()
RECURSIVE SumCapacity(_)
SumCapacity(rows) ==
    IF Len(rows) = 0 THEN 0
    ELSE rows[1].capacity_per_month + SumCapacity(Tail(rows))

\* Allocates half of the overhead only.
GnaAlloc_halfOverhead(capacity, total_capacity, cost_gna) ==
    IF total_capacity > 0
    THEN RMul(RDiv(R(capacity), R(2 * total_capacity)), cost_gna)
    ELSE R(0)

\* Allocates the overhead per unit of total capacity, not by the service's
\* capacity.
GnaAlloc_perUnit(capacity, total_capacity, cost_gna) ==
    IF total_capacity > 0
    THEN RDiv(cost_gna, R(total_capacity))
    ELSE R(0)

\* capacity["gna_alloc"] of one row
GnaAlloc(capacity, total_capacity, cost_gna) ==
    IF total_capacity > 0
    THEN RMul(RDiv(R(capacity), R(total_capacity)), cost_gna)
    ELSE R(0)

\* capacity.index.map(service_costs_map) for the row of 0-based index idx;
\* an index the map does not hold gives NaN
ServiceCostOfIndex(idx, cost_fulfillment, cost_shipping, cost_storage) ==
    CASE idx = 0 -> cost_fulfillment
      [] idx = 1 -> cost_shipping
      [] idx = 2 -> cost_storage
      [] idx = 3 -> R(0)
      [] idx = 4 -> R(0)
      [] OTHER   -> NaN

\* The table calculate_advanced_cost_allocation builds (pnl_data and
\* capacity_data are tables here).
AllocationTable(self) ==
    LET pnl == self.pnl_data
        cost_fulfillment == LedgerCost(pnl, "tajhiz")
        cost_shipping == LedgerCost(pnl, "shahn")
        cost_storage == LedgerCost(pnl, "takhzin")
        cost_gna == LedgerCost(pnl, "gna")
        orders_count == OrdersCount(self)
        capacity == self.capacity_data.rows
        total_capacity == SumCapacity(capacity)
    IN  [rows |-> [i \in 1..Len(capacity) |->
            LET before == ServiceCostOfIndex(i - 1, cost_fulfillment,
                                             cost_shipping, cost_storage)
                gna_alloc == GnaAlloc(capacity[i].capacity_per_month,
                                      total_capacity, cost_gna)
                after == RAdd(before, gna_alloc)
            IN  [service_name |-> capacity[i].service_name,
                 capacity_per_month |-> capacity[i].capacity_per_month,
                 monthly_cost_before_gna |-> before,
                 gna_allocation |-> gna_alloc,
                 monthly_cost_after_gna |-> after,
                 orders_per_month |-> orders_count,
                 cost_per_order |-> IF orders_count > 0
                                    THEN RDiv(after, R(orders_count))
                                    ELSE R(0)]]]

\* A table that depends on the table stored by an earlier call: the order
\* count grows by the number of rows stored before.
calculate_advanced_cost_allocation_accumulating(self) ==
    IF self.pnl_data = None \/ self.capacity_data = None
    THEN None
    ELSE IF self.advanced_cost_allocation = None
    THEN AllocationTable(self)
    ELSE AllocationTable([self EXCEPT !.orders_data =
             [count |-> OrdersCount(self) + Len(self.advanced_cost_allocation.rows)]])

\* What calculate_advanced_cost_allocation returns: None without a ledger or
\* a capacity table, else the table, which it also stores on the engine.
calculate_advanced_cost_allocation(self) ==
    IF self.pnl_data = None \/ self.capacity_data = None
    THEN None
    ELSE AllocationTable(self)

\* _get_base_price_from_capacity with no pricing_tiers file: the average
\* revenue of the service from the ledger, else 100 a unit.  service_type is
\* the search term ("irad_tajhiz" = 'ايراد التجهيز', ...).
get_base_price_from_capacity(self, service_type, quantity) ==
    LET service_stat_key ==
            CASE service_type = "irad_tajhiz"  -> "processing"
              [] service_type = "irad_shahn"   -> "shipping"
              [] service_type = "irad_takhzin" -> "storage"
              [] service_type = "irad_istilam" -> "receiving"
              [] OTHER                         -> "processing"
    IN  IF service_stat_key \in DOMAIN self.service_stats
        THEN RMul(self.service_stats[service_stat_key].avg, R(quantity))
        ELSE R(100 * quantity)

\* discount_rates.get(tier, 0)
DiscountRate(tier) ==
    CASE tier = "VIP"      -> Rat(15, 100)
      [] tier = "Premium"  -> Rat(10, 100)
      [] tier = "Good"     -> Rat(5, 100)
      [] tier = "Standard" -> R(0)
      [] tier = "Loss"     -> Rat(-20, 100)
      [] OTHER             -> R(0)

get_customer_discount(self, customer, base_price) ==
    IF customer \notin DOMAIN self.customer_profitability
    THEN R(0)
    ELSE RMul(base_price, DiscountRate(self.customer_profitability[customer].tier))

UrgencyMultiplier(urgency) ==
    CASE urgency = "low"    -> Rat(9, 10)
      [] urgency = "normal" -> R(1)
      [] urgency = "high"   -> Rat(13, 10)
      [] urgency = "urgent" -> Rat(15, 10)

\* _calculate_additional_costs(weight or 1.0, 'PREPAID', 0):
\* packaging max(5, weight * 2) and handling 3.0
AdditionalCostsDefault == Round2(RAdd(RMax(R(5), RMul(R(1), R(2))), R(3)))

\* calculate_comprehensive_price(service_type, quantity, customer,
\* urgency=urgency) with city, weight, order_value and payment_method left at
\* their defaults; customer "" is the call without a customer.
calculate_comprehensive_price(self, service_type, quantity, customer, urgency) ==
    LET base_price == get_base_price_from_capacity(self, service_type, quantity)
        pnl_adjustment == R(0)
        known == customer # "" /\ customer \in DOMAIN self.customer_profitability
        customer_discount == IF known
                             THEN get_customer_discount(self, customer, base_price)
                             ELSE R(0)
        additional_costs == AdditionalCostsDefault
        subtotal == RSub(RAdd(base_price, pnl_adjustment), customer_discount)
        service_total == RMul(subtotal, UrgencyMultiplier(urgency))
        grand_total == RAdd(RAdd(service_total, R(0)), additional_costs)
        breakdown == [base_service |-> base_price,
                      pnl_adjustment |-> pnl_adjustment,
                      additional |-> additional_costs]
        result == [service_type |-> service_type,
                   quantity |-> quantity,
                   breakdown |-> IF known
                                 THEN DictSet(breakdown, "customer_discount",
                                              customer_discount)
                                 ELSE breakdown,
                   subtotal |-> Round2(subtotal),
                   service_total |-> Round2(service_total),
                   grand_total |-> Round2(grand_total),
                   urgency_multiplier |-> UrgencyMultiplier(urgency)]
    IN  IF known
        THEN DictSet(result, "customer_tier",
                     self.customer_profitability[customer].tier)
        ELSE result

\* ------------------------------------------------------------------------
\* The cost allocation of UnifiedPricingEngine as a state machine
\* ------------------------------------------------------------------------
LedgerRow(l1, l2, amount, customer) ==
    [l1 |-> l1, l2 |-> l2, l3 |-> "", net_amount |-> R(amount), Customer |-> customer]

\* Ledgers of a month: with overhead 12, with overhead 6 + 6 and every
\* service category, with revenue only (no overhead rows), and with revenue
\* and expenses under the same keyword, a label holding two keywords and a
\* label holding none.
AllocLedgers ==
    { [rows |-> << LedgerRow("expense", "exp_tajhiz", -40, ""),
                   LedgerRow("expense", "exp_gna", -12, "") >>],
      [rows |-> << LedgerRow("expense", "exp_shahn", -30, ""),
                   LedgerRow("expense", "exp_takhzin", -20, ""),
                   LedgerRow("expense", "exp_gna", -6, ""),
                   LedgerRow("expense", "exp_gna", -6, "") >>],
      [rows |-> << LedgerRow("income", "irad_tajhiz", 100, "") >>],
      [rows |-> << LedgerRow("income", "irad_tajhiz", 100, ""),
                   LedgerRow("expense", "exp_tajhiz", -40, ""),
                   LedgerRow("expense", "shahn_takhzin", -9, ""),
                   LedgerRow("income", "irad_shahn", 4, ""),
                   LedgerRow("expense", "exp_rent", -7, "") >>] }

MaxServices == 2

\* The service of the i-th row of the capacity table and the capacities tried
\* for it; a capacity is a count of units a month, 0 for a service switched
\* off.
ServiceName(i) ==
    CASE i = 1 -> "order_fulfillment"
      [] i = 2 -> "shipping"
      [] i = 3 -> "storage"
      [] i = 4 -> "inventory_management"
      [] i = 5 -> "value_added_services"
      [] OTHER -> "added_service"

CapacityAt(i) ==
    CASE i = 1 -> {0, 1}
      [] i = 2 -> {0, 3}
      [] OTHER -> {0, 2}

CapacityTables ==
    UNION { { [rows |-> [i \in 1..k |->
                  [service_name |-> ServiceName(i),
                   capacity_per_month |-> f[i],
                   monthly_cost |-> R(60)]]] :
              f \in { g \in [1..k -> 0..3] : \A i \in 1..k : g[i] \in CapacityAt(i) } } :
            k \in 0..MaxServices }

\* A capacity table to which the user has added services beyond the five
\* default ones, each with capacity 1.
MaxAddedServices == 6

LongCapacityTables ==
    { [rows |-> [i \in 1..MaxAddedServices |->
          [service_name |-> ServiceName(i),
           capacity_per_month |-> 1,
           monthly_cost |-> R(60)]]] }

\* Orders tables: no rows, or the rows of four orders
OrdersTables ==
    { OrdersFrame({"ORDER ID"}, << >>),
      OrdersFrame({"ORDER ID"}, [i \in 1..4 |-> [c \in {"ORDER ID"} |-> [id |-> i]]]) }

IntegrateAllocLedger ==
    \E pnl_df \in AllocLedgers :
        /\ engine' = integrate_pnl_data(engine, pnl_df)
        /\ engine_args' = [op |-> "integrate_pnl_data"]
        /\ engine_result' = Self

IntegrateCapacityData ==
    \E capacity_df \in CapacityTables \cup LongCapacityTables :
        /\ engine' = integrate_capacity_data(engine, capacity_df)
        /\ engine_args' = [op |-> "integrate_capacity_data"]
        /\ engine_result' = Self

IntegrateOrdersData ==
    \E orders_df \in OrdersTables :
        /\ engine' = integrate_orders_data(engine, orders_df)
        /\ engine_args' = [op |-> "integrate_orders_data"]
        /\ engine_result' = Self

CalculateAdvancedCostAllocationCall ==
    LET ret == calculate_advanced_cost_allocation(engine)
    IN  /\ engine' = IF ret = None THEN engine
                     ELSE [engine EXCEPT !.advanced_cost_allocation = ret]
        /\ engine_args' = [op |-> "calculate_advanced_cost_allocation",
                           orders_count |-> OrdersCount(engine),
                           repeated |-> (/\ engine_args # None
                                         /\ engine_args.op
                                              = "calculate_advanced_cost_allocation")]
        /\ engine_result' = ret

InitAlloc ==
    /\ engine = UnifiedPricingEngine
    /\ engine_args = None
    /\ engine_result = None
    /\ PriceIdle /\ SupplierIdle /\ AdvIdle /\ ModelsIdle /\ DbIdle

NextAlloc ==
    \/ IntegrateAllocLedger /\ UNCHANGED <<priceVars, supVars, advVars, finVars, cmaVars, apmVars, dbVars>>
    \/ IntegrateCapacityData /\ UNCHANGED <<priceVars, supVars, advVars, finVars, cmaVars, apmVars, dbVars>>
    \/ IntegrateOrdersData /\ UNCHANGED <<priceVars, supVars, advVars, finVars, cmaVars, apmVars, dbVars>>
    \/ CalculateAdvancedCostAllocationCall /\ UNCHANGED <<priceVars, supVars, advVars, finVars, cmaVars, apmVars, dbVars>>

SpecAlloc == InitAlloc /\ [][NextAlloc]_vars

\* ---- claims about the cost allocation ----

AllocationReturned ==
    /\ engine_args # None
    /\ engine_args.op = "calculate_advanced_cost_allocation"

\* C1: when the observed monthly order count is 0, computing the cost per
\* order signals an error to the caller: the call never hands back a cost
\* table (with 0, infinity or a substituted figure as the cost per order).
C1_ZeroOrdersSignalsError ==
    (AllocationReturned /\ engine_args.orders_count = 0) => engine_result = None

\* C10: in the table the allocation returns, the overhead share of each
\* service is (its capacity / the sum of all capacities) * the ledger's
\* total overhead cost; when the capacities sum to 0 every share is 0, and no
\* share is ever the undefined result of a division by zero.
C10_OverheadShareByCapacity ==
    (AllocationReturned /\ engine_result # None) =>
        LET rows == engine_result.rows
            total == SumCapacity(engine.capacity_data.rows)
            overhead == LedgerCost(engine.pnl_data, "gna")
        IN  \A i \in 1..Len(rows) :
                /\ ~IsNaN(rows[i].gna_allocation)
                /\ IF total = 0
                   THEN rows[i].gna_allocation = R(0)
                   ELSE RMul(rows[i].gna_allocation, R(total))
                            = RMul(R(rows[i].capacity_per_month), overhead)

\* Two services of capacities 1 and 3 share an overhead of 12 as 3 and 9.
C10_Witness ==
    /\ AllocationReturned
    /\ engine_result # None
    /\ Len(engine_result.rows) = 2
    /\ engine_result.rows[1].capacity_per_month = 1
    /\ engine_result.rows[2].capacity_per_month = 3
    /\ engine_result.rows[1].gna_allocation = R(3)
    /\ engine_result.rows[2].gna_allocation = R(9)

\* The sum of the gna_allocation column and of the capacity column of a
\* returned table
RECURSIVE SumShares(_)
SumShares(rows) ==
    IF Len(rows) = 0 THEN R(0)
    ELSE RAdd(rows[1].gna_allocation, SumShares(Tail(rows)))

\* C11: when the allocation returns a table for a non-empty set of services
\* whose capacities sum to a positive number, the overhead shares of the
\* table sum to the total overhead cost extracted from the ledger.
C11_SharesSumToOverhead ==
    (/\ AllocationReturned
     /\ engine_result # None
     /\ Len(engine_result.rows) > 0
     /\ SumCapacity(engine_result.rows) > 0)
    => SumShares(engine_result.rows) = LedgerCost(engine.pnl_data, "gna")

\* Two services with a total capacity of 4 whose shares sum to the ledger's
\* overhead of 12.
C11_Witness ==
    /\ AllocationReturned
    /\ engine_result # None
    /\ Len(engine_result.rows) = 2
    /\ SumCapacity(engine_result.rows) = 4
    /\ engine_result.rows[1].gna_allocation # engine_result.rows[2].gna_allocation
    /\ SumShares(engine_result.rows) = R(12)
    /\ LedgerCost(engine.pnl_data, "gna") = R(12)

\* C12: for every row of the capacity table, whatever its position and
\* however many rows there are, the fully-loaded monthly cost in the returned
\* table is the row's direct cost plus its overhead share, and is a defined
\* number.
C12_FullyLoadedCostDefined ==
    (AllocationReturned /\ engine_result # None) =>
        \A i \in 1..Len(engine_result.rows) :
            /\ ~IsNaN(engine_result.rows[i].monthly_cost_after_gna)
            /\ engine_result.rows[i].monthly_cost_after_gna
                   = RAdd(engine_result.rows[i].monthly_cost_before_gna,
                          engine_result.rows[i].gna_allocation)

\* C13: a call of calculate_advanced_cost_allocation that directly follows
\* another one, with no table integrated in between, returns the same value
\* as the first, and a call leaves the ledger, capacity and orders tables of
\* the engine unchanged.
C13_AllocationIdempotent ==
    [][CalculateAdvancedCostAllocationCall =>
          /\ engine'.pnl_data = engine.pnl_data
          /\ engine'.capacity_data = engine.capacity_data
          /\ engine'.orders_data = engine.orders_data
          /\ (AllocationReturned => engine_result' = engine_result)]_vars

\* A second call in a row has returned a table with costs in it.
C13_Witness ==
    /\ AllocationReturned
    /\ engine_args.repeated
    /\ engine_result # None
    /\ Len(engine_result.rows) = 2
    /\ engine_result.rows[1].monthly_cost_after_gna = R(43)
    /\ engine_result.rows[1].orders_per_month = 4

\* C14: every capacity record whose monthly capacity is 0 has a derived cost
\* per capacity unit of 0.
C14_ZeroCapacityZeroUnitCost ==
    (engine # None /\ engine.capacity_data # None) =>
        \A i \in 1..Len(engine.capacity_data.rows) :
            engine.capacity_data.rows[i].capacity_per_month = 0
                => engine.capacity_data.rows[i].cost_per_unit = R(0)

\* ------------------------------------------------------------------------
\* Customer tiers of UnifiedPricingEngine as a state machine
\* ------------------------------------------------------------------------
\* Ledgers of customer A with income 10 and an expense that gives the margins
\* 40, 30, 20, 10, 0 and -20 per cent, with or without a second customer B
\* (income 10, expense 5); and a ledger where A has expenses only.
ExpensesOfA == {6, 7, 8, 9, 10, 12}

RowsOfB(with_b) ==
    IF with_b
    THEN << LedgerRow("income", "irad_shahn", 10, "B"),
            LedgerRow("expense", "exp_shahn", -5, "B") >>
    ELSE << >>

TierLedgers ==
    { [rows |-> << LedgerRow("income", "irad_tajhiz", 10, "A"),
                   LedgerRow("expense", "exp_tajhiz", -e, "A") >> \o RowsOfB(b)] :
        e \in ExpensesOfA, b \in BOOLEAN }
    \cup { [rows |-> << LedgerRow("expense", "exp_tajhiz", -5, "A") >>] }

MaxCustomerRows == 1

\* Rows of a customers table: with a tier column, and without one (the
\* columns type, monthly_volume and contract_type are absent throughout).
CustomerRows ==
    { [customer_name |-> c, tier |-> "VIP"] : c \in {"A", "C"} }
    \cup { [customer_name |-> c] : c \in {"A", "C"} }

CustomerTables ==
    UNION { { [rows |-> t] : t \in [1..k -> CustomerRows] } : k \in 0..MaxCustomerRows }

IntegrateTierLedger ==
    \E pnl_df \in TierLedgers :
        /\ engine' = integrate_pnl_data(engine, pnl_df)
        /\ engine_args' = [op |-> "integrate_pnl_data"]
        /\ engine_result' = Self

IntegrateCustomersData ==
    \E customers_df \in CustomerTables :
        /\ engine' = integrate_customers_data(engine, customers_df)
        /\ engine_args' = [op |-> "integrate_customers_data"]
        /\ engine_result' = Self

CalculateComprehensivePriceCall ==
    \E customer \in {"", "A", "B", "C"}, urgency \in {"normal", "urgent"} :
        /\ engine_args' = [op |-> "calculate_comprehensive_price",
                           service_type |-> "irad_tajhiz", quantity |-> 2,
                           customer |-> customer, urgency |-> urgency]
        /\ engine_result' = calculate_comprehensive_price(engine, "irad_tajhiz", 2,
                                                          customer, urgency)
        /\ UNCHANGED engine

InitTier ==
    /\ engine = UnifiedPricingEngine
    /\ engine_args = None
    /\ engine_result = None
    /\ PriceIdle /\ SupplierIdle /\ AdvIdle /\ ModelsIdle /\ DbIdle

NextTier ==
    \/ IntegrateTierLedger /\ UNCHANGED <<priceVars, supVars, advVars, finVars, cmaVars, apmVars, dbVars>>
    \/ IntegrateCustomersData /\ UNCHANGED <<priceVars, supVars, advVars, finVars, cmaVars, apmVars, dbVars>>
    \/ CalculateComprehensivePriceCall /\ UNCHANGED <<priceVars, supVars, advVars, finVars, cmaVars, apmVars, dbVars>>

SpecTier == InitTier /\ [][NextTier]_vars

\* ---- claims about customer tiers ----

\* The classification as the specification states it.
ClaimedTier(margin) ==
    IF RGt(margin, R(30)) THEN "VIP"
    ELSE IF RGt(margin, R(20)) THEN "Premium"
    ELSE IF RGt(margin, R(10)) THEN "Good"
    ELSE IF RGt(margin, R(0)) THEN "Standard"
    ELSE "Loss"

\* The customer has a margin in the latest integrated ledger.
HasLedgerMargin(c) ==
    /\ engine.pnl_data # None
    /\ c \in LedgerCustomers(engine.pnl_data.rows)
    /\ RGt(CustomerIncome(engine.pnl_data.rows, c), R(0))

LedgerMargin(c) == CustomerMargin(engine.pnl_data.rows, c)

\* C6: after any sequence of integrate_pnl_data and integrate_customers_data
\* calls, the tier held in the profitability table for a customer, and the
\* tier calculate_comprehensive_price reports for it, is the classification
\* of the customer's margin in the latest integrated ledger.
C6_TierNeverDrifts ==
    engine # None =>
        /\ \A c \in DOMAIN engine.customer_profitability :
              HasLedgerMargin(c) =>
                  engine.customer_profitability[c].tier = ClaimedTier(LedgerMargin(c))
        /\ (/\ engine_args # None
            /\ engine_args.op = "calculate_comprehensive_price"
            /\ "customer_tier" \in DOMAIN engine_result
            /\ HasLedgerMargin(engine_args.customer))
           => engine_result.customer_tier = ClaimedTier(LedgerMargin(engine_args.customer))

\* ------------------------------------------------------------------------
\* SmartPricingEngine and AdvancedPricingEngine (smart_pricing_engine.py)
\* ------------------------------------------------------------------------
\* 'Account Level 3' labels: "shahn_dakhil" = 'شحن داخل' (local shipping),
\* "shahn_kharij" = 'شحن خارج' (external shipping)
L3Contains(row, kw) == row.l3 = kw

MeanCostOrL3(rows, kw, default) ==
    LET sel == SelectSeq(rows, LAMBDA r : L3Contains(r, kw))
    IN  IF Len(sel) > 0 THEN RAbs(MeanAmount(sel)) ELSE R(default)

analyze_costs(data) ==
    [processing        |-> MeanCostOr(data.rows, "tajhiz", 50),
     shipping_local    |-> MeanCostOrL3(data.rows, "shahn_dakhil", 30),
     shipping_external |-> MeanCostOrL3(data.rows, "shahn_kharij", 100),
     storage           |-> MeanCostOr(data.rows, "takhzin", 20),
     operational       |-> MeanCostOr(data.rows, "gna", 100),
     receiving         |-> MeanCostOr(data.rows, "istilam", 15)]

\* The same computation as the unified engine's on a ledger that is present
calculate_margins(data) == calculate_margins_from_pnl(data)

SmartServiceStat(rows, search_term, avg, max, min) ==
    LET income == RowsWithL2(rows, search_term)
    IN  IF Len(income) > 0
        THEN [avg |-> RAbs(MeanAmount(income)),
              max |-> RAbs(MaxAmount(income)),
              min |-> RAbs(MinAmount(income)),
              count |-> Len(income)]
        ELSE [avg |-> R(avg), max |-> R(max), min |-> R(min), count |-> 0]

calculate_service_statistics(data) ==
    [processing |-> SmartServiceStat(data.rows, "irad_tajhiz", 150, 300, 50),
     shipping   |-> SmartServiceStat(data.rows, "irad_shahn", 200, 400, 100),
     storage    |-> SmartServiceStat(data.rows, "irad_takhzin", 50, 150, 20),
     receiving  |-> SmartServiceStat(data.rows, "irad_istilam", 30, 80, 10)]

SmartPricingEngine(pnl_data) ==
    [data |-> pnl_data,
     cost_analysis |-> analyze_costs(pnl_data),
     profit_margins |-> calculate_margins(pnl_data),
     service_stats |-> calculate_service_statistics(pnl_data)]

\* AdvancedPricingEngine.analyze_customer_profitability
adv_analyze_customer_profitability(data) ==
    LET rows == data.rows
        kept == { c \in LedgerCustomers(rows) : RGt(CustomerIncome(rows, c), R(0)) }
    IN  [c \in kept |->
            [profitability |-> Round2(CustomerMargin(rows, c)),
             income |-> Round2(CustomerIncome(rows, c)),
             expenses |-> Round2(CustomerExpense(rows, c)),
             net_profit |-> Round2(RSub(CustomerIncome(rows, c),
                                        CustomerExpense(rows, c)))]]

AdvancedPricingEngine(pnl_data) ==
    DictSet(SmartPricingEngine(pnl_data), "customer_profitability",
            adv_analyze_customer_profitability(pnl_data))

\* cost_center_multipliers.get(cost_center, 1.0); the four named cost centers
\* are the shops 'متجر صفوة', 'متجر بيست شيلد', 'متجر تكنو مارت', 'شركة تازيا'
CostCenterMultiplier(cost_center) ==
    CASE cost_center = "safwa"       -> R(1)
      [] cost_center = "best_shield" -> Rat(11, 10)
      [] cost_center = "techno_mart" -> Rat(9, 10)
      [] cost_center = "tazia"       -> Rat(12, 10)
      [] OTHER                       -> R(1)

\* base_prices.get(service_type, 100)
SmartBasePrice(self, service_type) ==
    CASE service_type = "irad_tajhiz"  -> self.service_stats.processing.avg
      [] service_type = "irad_shahn"   -> self.service_stats.shipping.avg
      [] service_type = "irad_takhzin" -> self.service_stats.storage.avg
      [] service_type = "irad_istilam" -> self.service_stats.receiving.avg
      [] OTHER                         -> R(100)

calculate_price(self, service_type, cost_center, quantity, complexity) ==
    LET base_price == SmartBasePrice(self, service_type)
        cost_multiplier == CostCenterMultiplier(cost_center)
        price_before_margin == RMul(RMul(base_price, cost_multiplier), complexity)
        target_margin == RMax(R(20), self.profit_margins.historical_margin)
        final_price == RMul(price_before_margin,
                            RAdd(R(1), RDiv(target_margin, R(100))))
        total_price == RMul(final_price, R(quantity))
    IN  [service_type |-> service_type,
         cost_center |-> cost_center,
         base_price |-> Round2(base_price),
         unit_price |-> Round2(final_price),
         quantity |-> quantity,
         total_price |-> Round2(total_price),
         profit_margin |-> Round2(target_margin),
         complexity_factor |-> complexity,
         cost_multiplier |-> cost_multiplier]

\* The volume discount and its label
VolumeDiscount(volume) ==
    IF volume > 1000 THEN [factor |-> Rat(85, 100), label |-> "15% (very large volume)"]
    ELSE IF volume > 500 THEN [factor |-> Rat(90, 100), label |-> "10% (large volume)"]
    ELSE IF volume > 100 THEN [factor |-> Rat(95, 100), label |-> "5% (medium volume)"]
    ELSE [factor |-> R(1), label |-> "none"]

\* The customer multiplier and tier label of dynamic_pricing.  The labels
\* stand for 'VIP - خصم 15%', 'ممتاز - خصم 10%', 'جيد - خصم 5%',
\* 'تحذير - زيادة 20%' and 'عادي'.
CustomerAdjustment(self, customer) ==
    IF customer \in DOMAIN self.customer_profitability
    THEN LET customer_prof == self.customer_profitability[customer].profitability
         IN  IF RGt(customer_prof, R(30))
             THEN [multiplier |-> Rat(85, 100), tier |-> "VIP - 15% discount"]
             ELSE IF RGt(customer_prof, R(20))
             THEN [multiplier |-> Rat(90, 100), tier |-> "Premium - 10% discount"]
             ELSE IF RGt(customer_prof, R(10))
             THEN [multiplier |-> Rat(95, 100), tier |-> "Good - 5% discount"]
             ELSE IF RLt(customer_prof, R(0))
             THEN [multiplier |-> Rat(12, 10), tier |-> "Warning - 20% increase"]
             ELSE [multiplier |-> R(1), tier |-> "Standard"]
    ELSE [multiplier |-> R(1), tier |-> "Standard"]

dynamic_pricing(self, service_type, customer, volume, urgency) ==
    LET volume_discount == VolumeDiscount(volume)
        adjustment == CustomerAdjustment(self, customer)
        base_calculation == calculate_price(self, service_type, customer, 1, R(1))
        base_unit_price == base_calculation.unit_price
        dynamic_unit_price ==
            RMul(RMul(RMul(base_unit_price, UrgencyMultiplier(urgency)),
                      volume_discount.factor),
                 adjustment.multiplier)
        total_price == RMul(dynamic_unit_price, R(volume))
    IN  [service_type |-> service_type,
         customer |-> customer,
         customer_tier |-> adjustment.tier,
         base_unit_price |-> Round2(base_unit_price),
         dynamic_unit_price |-> Round2(dynamic_unit_price),
         volume |-> volume,
         total_price |-> Round2(total_price),
         urgency |-> urgency,
         urgency_multiplier |-> UrgencyMultiplier(urgency),
         volume_discount |-> volume_discount.label,
         savings |-> Round2(RMul(RSub(base_unit_price, dynamic_unit_price),
                                 R(volume)))]

\* ---- AdvancedPricingEngine as a state machine ----

Volumes == {50, 100, 600, 2000}

DynamicPricingCall ==
    \E customer \in {"A", "B", "C"}, volume \in Volumes, urgency \in {"normal", "urgent"} :
        /\ adv_result' = dynamic_pricing(adv, "irad_tajhiz", customer, volume, urgency)
        /\ UNCHANGED adv

\* The engine the application builds from an uploaded ledger
InitAdvanced ==
    /\ adv \in { AdvancedPricingEngine(pnl_data) : pnl_data \in TierLedgers }
    /\ adv_result = None
    /\ PriceIdle /\ SupplierIdle /\ EngineIdle /\ ModelsIdle /\ DbIdle

NextAdvanced == DynamicPricingCall /\ UNCHANGED <<priceVars, supVars, engineVars, finVars, cmaVars, apmVars, dbVars>>

SpecAdvanced == InitAdvanced /\ [][NextAdvanced]_vars

\* ---- claims about the classification and the tier multipliers ----

\* The tier a label of dynamic_pricing names
TierOfLabel(label) ==
    CASE label = "VIP - 15% discount"     -> "VIP"
      [] label = "Premium - 10% discount" -> "Premium"
      [] label = "Good - 5% discount"     -> "Good"
      [] label = "Standard"               -> "Standard"
      [] label = "Warning - 20% increase" -> "Loss"

\* The multiplier the specification gives a tier
ClaimedMultiplier(tier) ==
    CASE tier = "VIP"      -> Rat(85, 100)
      [] tier = "Premium"  -> Rat(90, 100)
      [] tier = "Good"     -> Rat(95, 100)
      [] tier = "Standard" -> R(1)
      [] tier = "Loss"     -> Rat(12, 10)

\* dynamic_pricing has priced a customer that has a margin
PricedClassified ==
    /\ adv_result # None
    /\ adv_result.customer \in DOMAIN adv.customer_profitability

PricedMargin == adv.customer_profitability[adv_result.customer].profitability

\* C4: every place that classifies a customer maps the margin to the tier of
\* the stated inequalities: > 30 VIP, (20, 30] Premium, (10, 20] Good,
\* (0, 10] Standard, <= 0 Loss; here for the tier dynamic_pricing reports.
C4_TierClassification ==
    PricedClassified => TierOfLabel(adv_result.customer_tier) = ClaimedTier(PricedMargin)

\* C5: the price of a classified customer is the base price times the
\* multiplier of its tier (0.85, 0.90, 0.95, 1.00, and 1.20 for every margin
\* <= 0); stated for a normal-urgency request without a volume discount.
C5_TierMultiplier ==
    (PricedClassified /\ adv_result.urgency = "normal" /\ adv_result.volume <= 100) =>
        adv_result.dynamic_unit_price =
            Round2(RMul(adv_result.base_unit_price,
                        ClaimedMultiplier(ClaimedTier(PricedMargin))))

\* ------------------------------------------------------------------------
\* CMAPricingModel (cma_pricing_model.py)
\* ------------------------------------------------------------------------
\* A call that ends in an uncaught exception returns Raised(its type).
Raised(exception) == [raised |-> exception]

CMAPricingModel == [cost_data |-> EmptyDict, market_data |-> EmptyDict, results |-> EmptyDict]

input_cost_data(self, variable_cost, fixed_cost, expected_units, capacity_units) ==
    LET fixed_cost_per_unit == IF expected_units > 0
                               THEN RDiv(fixed_cost, R(expected_units))
                               ELSE R(0)
    IN  [self EXCEPT !.cost_data =
            [variable_cost_per_unit |-> variable_cost,
             total_fixed_cost |-> fixed_cost,
             expected_units_sold |-> expected_units,
             capacity_units |-> capacity_units,
             total_variable_cost |-> RMul(variable_cost, R(expected_units)),
             fixed_cost_per_unit |-> fixed_cost_per_unit,
             total_cost_per_unit |-> RAdd(variable_cost, fixed_cost_per_unit)]]

\* sum(competitor_prices) / len(competitor_prices) if competitor_prices else 0
RECURSIVE SumSeq(_)
SumSeq(xs) == IF Len(xs) = 0 THEN R(0) ELSE RAdd(xs[1], SumSeq(Tail(xs)))

input_market_data(self, market_price, competitor_prices, price_elasticity, target_profit_margin) ==
    [self EXCEPT !.market_data =
        [market_price |-> market_price,
         competitor_avg_price |-> IF Len(competitor_prices) > 0
                                  THEN RDiv(SumSeq(competitor_prices),
                                            R(Len(competitor_prices)))
                                  ELSE R(0),
         price_elasticity |-> price_elasticity,
         target_profit_margin |-> target_profit_margin,
         target_profit_per_unit |-> RMul(market_price, target_profit_margin)]]

\* The error of calculate_break_even is the dict {'error': 'سعر البيع أقل من
\* التكلفة المتغيرة'} (selling price below variable cost).
calculate_break_even(self, selling_price) ==
    IF "variable_cost_per_unit" \notin DOMAIN self.cost_data
    THEN Raised("KeyError")
    ELSE LET contribution_margin == RSub(selling_price, self.cost_data.variable_cost_per_unit)
             break_even_units == RDiv(self.cost_data.total_fixed_cost, contribution_margin)
             expected == R(self.cost_data.expected_units_sold)
         IN  IF RLe(contribution_margin, R(0))
             THEN [error |-> "selling price below variable cost"]
             ELSE [break_even_units |-> Round2(break_even_units),
                   break_even_revenue |-> Round2(RMul(break_even_units, selling_price)),
                   contribution_margin |-> Round2(contribution_margin),
                   margin_of_safety_units |-> RSub(expected, break_even_units),
                   margin_of_safety_percentage |->
                       IF RGt(expected, R(0))
                       THEN Round2(RMul(RDiv(RSub(expected, break_even_units), expected),
                                        R(100)))
                       ELSE R(0)]

\* The error of calculate_elasticity_impact is {'error': 'مرونة السعر غير
\* محددة'} (price elasticity undefined).
calculate_elasticity_impact(self, price_change_percentage) ==
    IF "price_elasticity" \notin DOMAIN self.market_data
    THEN Raised("KeyError")
    ELSE IF self.market_data.price_elasticity = R(0)
    THEN [error |-> "price elasticity undefined"]
    ELSE IF "expected_units_sold" \notin DOMAIN self.cost_data
    THEN Raised("KeyError")
    ELSE LET expected == R(self.cost_data.expected_units_sold)
             quantity_change_percentage ==
                 RMul(self.market_data.price_elasticity, price_change_percentage)
             new_quantity == RMul(expected, RAdd(R(1), quantity_change_percentage))
             new_price == RMul(self.market_data.market_price,
                               RAdd(R(1), price_change_percentage))
             new_revenue == RMul(new_quantity, new_price)
             current_revenue == RMul(expected, self.market_data.market_price)
         IN  [price_change_percentage |-> price_change_percentage,
              quantity_change_percentage |-> Round2(RMul(quantity_change_percentage, R(100))),
              new_quantity |-> Round2(new_quantity),
              new_price |-> Round2(new_price),
              new_revenue |-> Round2(new_revenue),
              revenue_change_percentage |->
                  IF RGt(current_revenue, R(0))
                  THEN Round2(RMul(RDiv(RSub(new_revenue, current_revenue),
                                        current_revenue), R(100)))
                  ELSE R(0)]

calculate_cost_plus_pricing(self, markup_percentage) ==
    LET cost_per_unit == self.cost_data.total_cost_per_unit
        price == RMul(cost_per_unit, RAdd(R(1), markup_percentage))
    IN  [method |-> "Cost-Plus Pricing",
         calculated_price |-> Round2(price),
         cost_per_unit |-> Round2(cost_per_unit),
         markup_percentage |-> markup_percentage,
         profit_per_unit |-> Round2(RSub(price, cost_per_unit))]

analyze_profitability(self, selling_price) ==
    LET expected == R(self.cost_data.expected_units_sold)
        revenue == RMul(expected, selling_price)
        total_cost == RAdd(RMul(self.cost_data.variable_cost_per_unit, expected),
                           self.cost_data.total_fixed_cost)
        profit == RSub(revenue, total_cost)
        contribution_margin_per_unit ==
            RSub(selling_price, self.cost_data.variable_cost_per_unit)
    IN  [selling_price |-> selling_price,
         expected_units |-> self.cost_data.expected_units_sold,
         total_revenue |-> Round2(revenue),
         total_cost |-> Round2(total_cost),
         total_profit |-> Round2(profit),
         profit_margin_percentage |->
             IF RGt(revenue, R(0)) THEN Round2(RMul(RDiv(profit, revenue), R(100)))
             ELSE R(0),
         contribution_margin_per_unit |-> Round2(contribution_margin_per_unit),
         contribution_margin_ratio |->
             IF RGt(selling_price, R(0))
             THEN Round2(RMul(RDiv(contribution_margin_per_unit, selling_price), R(100)))
             ELSE R(0),
         break_even_analysis |-> calculate_break_even(self, selling_price)]

\* best_analysis is the first analysis whose total_profit is the maximum.
BestAnalysis(profitability_analysis) ==
    LET I == 1..Len(profitability_analysis)
        isBest(i) == \A j \in I : RLe(profitability_analysis[j].total_profit,
                                      profitability_analysis[i].total_profit)
        first == CHOOSE i \in I : isBest(i) /\ \A j \in I : isBest(j) => i <= j
    IN  profitability_analysis[first]

generate_summary(profitability_analysis) ==
    IF Len(profitability_analysis) = 0
    THEN [text |-> "not enough data"]
    ELSE LET best_analysis == BestAnalysis(profitability_analysis)
         IN  IF "break_even_units" \notin DOMAIN best_analysis.break_even_analysis
             THEN Raised("KeyError")
             ELSE [best_price |-> best_analysis.selling_price,
                   best_profit |-> best_analysis.total_profit,
                   profit_margin |-> best_analysis.profit_margin_percentage,
                   break_even_units |-> best_analysis.break_even_analysis.break_even_units,
                   margin_of_safety |->
                       best_analysis.break_even_analysis.margin_of_safety_percentage,
                   contribution_margin |-> best_analysis.contribution_margin_ratio]

\* Of the returned dict the model keeps the analyses and the summary; the
\* recommendations and the elasticity table do not feed the summary.
generate_pricing_recommendation(self) ==
    IF "total_cost_per_unit" \notin DOMAIN self.cost_data
       \/ "market_price" \notin DOMAIN self.market_data
    THEN Raised("KeyError")
    ELSE LET cost_plus_30 == calculate_cost_plus_pricing(self, Rat(3, 10))
             cost_plus_50 == calculate_cost_plus_pricing(self, Rat(5, 10))
             prices_to_analyze == <<self.market_data.market_price,
                                    cost_plus_30.calculated_price,
                                    cost_plus_50.calculated_price,
                                    self.market_data.competitor_avg_price>>
             priced == SelectSeq(prices_to_analyze, LAMBDA price : RGt(price, R(0)))
             profitability_analysis ==
                 [i \in 1..Len(priced) |-> analyze_profitability(self, priced[i])]
             summary == generate_summary(profitability_analysis)
         IN  IF "raised" \in DOMAIN summary
             THEN summary
             ELSE [profitability_analysis |-> profitability_analysis,
                   summary |-> summary]

\* ------------------------------------------------------------------------
\* AdvancedPricingModel (advanced_pricing_model.py)
\* ------------------------------------------------------------------------
AdvancedPricingModel == [cost_data |-> EmptyDict, market_data |-> EmptyDict,
                         scenarios |-> EmptyDict]

\* cost_structure.get(key, default)
DictGet(d, key, default) == IF key \in DOMAIN d THEN d[key] ELSE default

calculate_total_costs(cost_data) ==
    LET variable_cost_per_unit == RAdd(RAdd(cost_data.direct_materials, cost_data.direct_labor),
                                       cost_data.variable_overhead)
        total_fixed_costs == RAdd(RAdd(cost_data.fixed_overhead, cost_data.rnd_costs),
                                  RAdd(cost_data.marketing_costs,
                                       cost_data.administrative_costs))
        fixed_cost_per_unit == IF cost_data.expected_units > 0
                               THEN RDiv(total_fixed_costs, R(cost_data.expected_units))
                               ELSE R(0)
    IN  DictUpdate(cost_data,
            [variable_cost_per_unit |-> variable_cost_per_unit,
             total_fixed_costs |-> total_fixed_costs,
             fixed_cost_per_unit |-> fixed_cost_per_unit,
             total_cost_per_unit |-> RAdd(variable_cost_per_unit, fixed_cost_per_unit)])

input_detailed_cost_data(self, cost_structure) ==
    [self EXCEPT !.cost_data = calculate_total_costs(
        [direct_materials |-> DictGet(cost_structure, "direct_materials", R(0)),
         direct_labor |-> DictGet(cost_structure, "direct_labor", R(0)),
         variable_overhead |-> DictGet(cost_structure, "variable_overhead", R(0)),
         fixed_overhead |-> DictGet(cost_structure, "fixed_overhead", R(0)),
         rnd_costs |-> DictGet(cost_structure, "rnd_costs", R(0)),
         marketing_costs |-> DictGet(cost_structure, "marketing_costs", R(0)),
         administrative_costs |-> DictGet(cost_structure, "administrative_costs", R(0)),
         expected_units |-> DictGet(cost_structure, "expected_units", 0),
         capacity_units |-> DictGet(cost_structure, "capacity_units", 0),
         production_cycle_days |-> DictGet(cost_structure, "production_cycle_days", 30)])]

SensitivityChanges == {"-10%", "-5%", "+5%", "+10%"}
SensitivityChange(label) == CASE label = "-10%" -> Rat(-1, 10)
                              [] label = "-5%" -> Rat(-5, 100)
                              [] label = "+5%" -> Rat(5, 100)
                              [] OTHER -> Rat(1, 10)

analyze_scenario(self, assumptions) ==
    LET base_price == DictGet(assumptions, "base_price",
                              RMul(DictGet(self.cost_data, "total_cost_per_unit", R(0)),
                                   Rat(13, 10)))
        volume == R(DictGet(assumptions, "volume",
                            DictGet(self.cost_data, "expected_units", 0)))
        variable_cost == DictGet(self.cost_data, "variable_cost_per_unit", R(0))
        total_fixed_costs == DictGet(self.cost_data, "total_fixed_costs", R(0))
        revenue == RMul(base_price, volume)
        total_cost == RAdd(RMul(variable_cost, volume), total_fixed_costs)
        profit == RSub(revenue, total_cost)
        price_elasticity == DictGet(self.market_data, "price_elasticity", Rat(-3, 2))
        new_profit(change) ==
            RSub(RMul(RMul(base_price, RAdd(R(1), change)),
                      RMul(volume, RAdd(R(1), RMul(change, price_elasticity)))),
                 total_cost)
        break_even == IF RGt(RSub(base_price, variable_cost), R(0))
                      THEN RDiv(total_fixed_costs, RSub(base_price, variable_cost))
                      ELSE Infinity
    IN  [base_price |-> base_price,
         expected_volume |-> volume,
         revenue |-> Round2(revenue),
         total_cost |-> Round2(total_cost),
         profit |-> Round2(profit),
         profit_margin |-> IF RGt(revenue, R(0))
                           THEN Round2(RMul(RDiv(profit, revenue), R(100)))
                           ELSE R(0),
         sensitivity_analysis |->
             [label \in SensitivityChanges |->
                 [new_profit |-> Round2(new_profit(SensitivityChange(label))),
                  profit_change_percentage |->
                      IF profit # R(0)
                      THEN Round2(RMul(RDiv(RSub(new_profit(SensitivityChange(label)), profit),
                                            profit), R(100)))
                      ELSE R(0)]],
         break_even_point |-> break_even]

\* created_at is the wall clock at the call; the model keeps it opaque.
create_pricing_scenario(self, scenario_name, assumptions) ==
    [self EXCEPT !.scenarios = DictSet(self.scenarios, scenario_name,
        [assumptions |-> assumptions,
         created_at |-> "datetime.now()",
         analysis |-> analyze_scenario(self, assumptions)])]

\* ------------------------------------------------------------------------
\* FinancialEngine (financial_engine.py)
\* ------------------------------------------------------------------------
FinancialEngine == [pl_data |-> None, capacity_data |-> None, orders_data |-> None,
                    unit_costs |-> EmptyDict]

\* int(x): truncation toward zero
TruncInt(x) == IF x.n >= 0 THEN x.n \div x.d ELSE -((-x.n) \div x.d)

\* np.linspace(min_price, max_price, 5)
Linspace5(min_price, max_price) ==
    [i \in 1..5 |-> RAdd(min_price, RDiv(RMul(RSub(max_price, min_price), R(i - 1)), R(4)))]

\* max(estimated_volume, 100): the least volume the analysis projects
MinEstimatedVolume == 100

\* Column names of the returned frame: price 'السعر', estimated_volume 'الكمية
\* المتوقعة', revenue 'الإيراد', total_cost 'التكلفة الكلية', profit 'الربح',
\* margin_pct 'هامش الربح %', choice 'اختيار؟' ("best" = '⭐ أفضل خيار').
ElasticityRow(cost_per_order, base_volume, base_price, elasticity, price) ==
    LET price_change_pct == IF RGt(base_price, R(0))
                            THEN RDiv(RSub(price, base_price), base_price)
                            ELSE R(0)
        volume_change_pct == RMul(elasticity, price_change_pct)
        raw_volume == TruncInt(RMul(R(base_volume), RAdd(R(1), volume_change_pct)))
        estimated_volume == IF raw_volume > MinEstimatedVolume THEN raw_volume
                            ELSE MinEstimatedVolume
        revenue == RMul(price, R(estimated_volume))
        total_cost == RMul(cost_per_order, R(estimated_volume))
    IN  [price |-> price,
         estimated_volume |-> estimated_volume,
         revenue |-> revenue,
         total_cost |-> total_cost,
         profit |-> RSub(revenue, total_cost),
         margin_pct |-> IF RGt(price, R(0))
                        THEN RMul(RDiv(RSub(price, cost_per_order), price), R(100))
                        ELSE R(0)]

\* A mark given to the rows of the greatest profit of the whole table
ChoiceMark_overall(profits, i) ==
    IF \A j \in 1..Len(profits) : RLe(profits[j], profits[i]) THEN "best" ELSE ""

\* profit == max([r['profit'] for r in results + [{'profit': profit}]]): when
\* row i is appended, results holds the rows before it
ChoiceMark(profits, i) ==
    IF \A j \in 1..i : RLe(profits[j], profits[i]) THEN "best" ELSE ""

price_elasticity_analysis(cost_per_order, base_volume, price_range, elasticity) ==
    LET min_price == price_range[1]
        max_price == price_range[2]
        base_price == RDiv(RAdd(min_price, max_price), R(2))
        prices == Linspace5(min_price, max_price)
        row(i) == ElasticityRow(cost_per_order, base_volume, base_price, elasticity,
                                prices[i])
    IN  [rows |-> [i \in 1..5 |->
            [price |-> row(i).price,
             estimated_volume |-> row(i).estimated_volume,
             revenue |-> row(i).revenue,
             total_cost |-> row(i).total_cost,
             profit |-> row(i).profit,
             margin_pct |-> row(i).margin_pct,
             choice |-> ChoiceMark([k \in 1..5 |-> row(k).profit], i)]]]

\* A ledger frame as FinancialEngine reads it: the columns it has and its rows
\* (l2 is 'Account Level 2', classified as for the other engines).
PlFrame(columns, rows) == [columns |-> columns, rows |-> rows]
PlRow(l2, amount) == [l2 |-> l2, Amount |-> R(amount)]

\* pl_df[...]['Amount'].sum(): 0 for no rows
RECURSIVE SumAmount(_)
SumAmount(rows) == IF Len(rows) = 0 THEN R(0) ELSE RAdd(rows[1].Amount, SumAmount(Tail(rows)))

\* order_count = 10000 (the estimate load_pl_costs divides by)
DefaultOrderCount == 10000

\* The costs of the except branch
ZeroCosts ==
    [fulfillment_total |-> R(0), storage_total |-> R(0), shipping_total |-> R(0),
     overhead_total |-> R(0), total_monthly_expense |-> R(0), order_count |-> 0,
     fulfillment_cost_per_order |-> R(0), storage_cost_per_order |-> R(0),
     shipping_cost_per_order |-> R(0), overhead_cost_per_order |-> R(0)]

\* The returned costs; a frame without the columns raises inside the try and
\* gives the costs of the except branch.
load_pl_costs(pl_df) ==
    IF ~ ({"Account Level 2", "Amount"} \subseteq pl_df.columns)
    THEN ZeroCosts
    ELSE LET fulfillment_expense == SumAmount(RowsWithL2(pl_df.rows, "tajhiz"))
             storage_expense == SumAmount(RowsWithL2(pl_df.rows, "takhzin"))
             shipping_expense == SumAmount(RowsWithL2(pl_df.rows, "shahn"))
             overhead_expense == SumAmount(RowsWithL2(pl_df.rows, "gna"))
             total_expense ==
                 RAbs(SumAmount(SelectSeq(pl_df.rows, LAMBDA r : RLt(r.Amount, R(0)))))
             order_count == DefaultOrderCount
             per_order(expense) == IF order_count > 0
                                   THEN RDiv(RAbs(expense), R(order_count))
                                   ELSE R(0)
         IN  [fulfillment_total |-> RAbs(fulfillment_expense),
              storage_total |-> RAbs(storage_expense),
              shipping_total |-> RAbs(shipping_expense),
              overhead_total |-> RAbs(overhead_expense),
              total_monthly_expense |-> total_expense,
              order_count |-> order_count,
              fulfillment_cost_per_order |-> per_order(fulfillment_expense),
              storage_cost_per_order |-> per_order(storage_expense),
              shipping_cost_per_order |-> per_order(shipping_expense),
              overhead_cost_per_order |-> per_order(overhead_expense)]

\* 'word' in scenario, for the scenario keys the application passes
ScenarioKeys == {"fulfillment_riyadh", "fulfillment_outside", "storage_only",
                 "shipping_riyadh", "shipping_outside"}
ScenarioHas(scenario, word) ==
    CASE scenario = "fulfillment_riyadh"  -> word \in {"fulfillment", "riyadh"}
      [] scenario = "fulfillment_outside" -> word \in {"fulfillment", "outside"}
      [] scenario = "storage_only"        -> word \in {"storage"}
      [] scenario = "shipping_riyadh"     -> word \in {"riyadh"}
      [] scenario = "shipping_outside"    -> word \in {"outside"}
      [] OTHER                            -> FALSE

compute_unit_cost(self, scenario, pl_costs_arg, include_return_cost) ==
    LET pl_costs == IF pl_costs_arg = None THEN self.unit_costs ELSE pl_costs_arg
        fulfillment_cost == IF ScenarioHas(scenario, "fulfillment")
                            THEN DictGet(pl_costs, "fulfillment_cost_per_order", Rat(7, 2))
                            ELSE R(0)
        storage_cost == IF ScenarioHas(scenario, "storage")
                           \/ ScenarioHas(scenario, "fulfillment")
                        THEN DictGet(pl_costs, "storage_cost_per_order", Rat(3, 2))
                        ELSE R(0)
        shipping_cost == IF ScenarioHas(scenario, "riyadh") THEN R(8)
                         ELSE IF ScenarioHas(scenario, "outside") THEN R(15)
                         ELSE DictGet(pl_costs, "shipping_cost_per_order", R(10))
        overhead_cost == DictGet(pl_costs, "overhead_cost_per_order", R(2))
        return_rate == RDiv(DictGet(pl_costs, "return_rate", R(5)), R(100))
        return_cost == IF include_return_cost
                       THEN RMul(RAdd(fulfillment_cost, shipping_cost), return_rate)
                       ELSE R(0)
    IN  [fulfillment_cost |-> fulfillment_cost,
         storage_cost |-> storage_cost,
         shipping_cost |-> shipping_cost,
         overhead_cost |-> overhead_cost,
         return_cost |-> return_cost,
         \* sum(cost_breakdown.values()) while total_cost_per_order is still 0
         total_cost_per_order |->
             RAdd(RAdd(RAdd(fulfillment_cost, storage_cost),
                       RAdd(shipping_cost, overhead_cost)),
                  RAdd(return_cost, R(0)))]

\* A strict risk_warning: a margin below the minimum is rejected.
risk_warning_enforcing(margin_pct, min_margin, recommended_margin) ==
    IF RLe(recommended_margin, margin_pct)
    THEN [margin_pct |-> margin_pct, min_margin |-> min_margin,
          risk_level |-> "safe", color |-> "green",
          warning_message |-> "excellent margin",
          recommendation |-> "price is suitable"]
    ELSE IF RLe(min_margin, margin_pct)
    THEN [margin_pct |-> margin_pct, min_margin |-> min_margin,
          risk_level |-> "moderate", color |-> "orange",
          warning_message |-> "acceptable margin below target",
          recommendation |-> "try to reach the recommended margin"]
    ELSE Raised("RiskRejectedError")

\* The messages of risk_warning are formatted text; the model keeps which of
\* the three messages it is.
risk_warning(margin_pct, min_margin, recommended_margin) ==
    IF RLe(recommended_margin, margin_pct) /\ ~ IsNaN(margin_pct)
    THEN [margin_pct |-> margin_pct, min_margin |-> min_margin,
          risk_level |-> "safe", color |-> "green",
          warning_message |-> "excellent margin",
          recommendation |-> "price is suitable"]
    ELSE IF RLe(min_margin, margin_pct) /\ ~ IsNaN(margin_pct)
    THEN [margin_pct |-> margin_pct, min_margin |-> min_margin,
          risk_level |-> "moderate", color |-> "orange",
          warning_message |-> "acceptable margin below target",
          recommendation |-> "try to reach the recommended margin"]
    ELSE [margin_pct |-> margin_pct, min_margin |-> min_margin,
          risk_level |-> "high", color |-> "red",
          warning_message |-> "high risk quote - margin below the minimum",
          recommendation |-> "raise the price or cut costs at once"]

get_status_color(margin_pct, min_margin, recommended_margin) ==
    IF RLe(recommended_margin, margin_pct) /\ ~ IsNaN(margin_pct) THEN "green"
    ELSE IF RLe(min_margin, margin_pct) /\ ~ IsNaN(margin_pct) THEN "orange"
    ELSE "red"

\* ------------------------------------------------------------------------
\* Specification of the CMA pricing page (app.py, "CMA" model)
\* ------------------------------------------------------------------------
CmaVariableCosts == {R(4)}
CmaFixedCosts == {R(0), R(100)}
CmaExpectedUnits == {50, 1000}
CmaMarketPrices == {R(3), R(6), R(100)}
CmaCompetitorPrices == {<<>>, <<R(5), R(7)>>}
CmaElasticities == {R(0), Rat(-3, 2)}
CmaSellingPrices == {R(3), R(4), R(6)}
CmaPriceChanges == {Rat(-1, 10), Rat(1, 10), R(1)}

InputCostData ==
    \E variable_cost \in CmaVariableCosts, fixed_cost \in CmaFixedCosts,
       expected_units \in CmaExpectedUnits :
        /\ cma' = input_cost_data(cma, variable_cost, fixed_cost, expected_units,
                                  2 * expected_units)
        /\ cma_args' = [op |-> "input_cost_data"]
        /\ cma_result' = None

InputMarketData ==
    \E market_price \in CmaMarketPrices, competitor_prices \in CmaCompetitorPrices,
       price_elasticity \in CmaElasticities :
        /\ cma' = input_market_data(cma, market_price, competitor_prices,
                                    price_elasticity, Rat(1, 5))
        /\ cma_args' = [op |-> "input_market_data"]
        /\ cma_result' = None

CalculateBreakEvenCall ==
    \E selling_price \in CmaSellingPrices :
        /\ cma_args' = [op |-> "calculate_break_even", selling_price |-> selling_price]
        /\ cma_result' = calculate_break_even(cma, selling_price)
        /\ UNCHANGED cma

CalculateElasticityImpactCall ==
    \E price_change_percentage \in CmaPriceChanges :
        /\ cma_args' = [op |-> "calculate_elasticity_impact",
                        price_change_percentage |-> price_change_percentage]
        /\ cma_result' = calculate_elasticity_impact(cma, price_change_percentage)
        /\ UNCHANGED cma

GeneratePricingRecommendationCall ==
    /\ cma_args' = [op |-> "generate_pricing_recommendation"]
    /\ cma_result' = generate_pricing_recommendation(cma)
    /\ UNCHANGED cma

InitCMA ==
    /\ cma = CMAPricingModel
    /\ cma_args = None
    /\ cma_result = None
    /\ PriceIdle /\ SupplierIdle /\ EngineIdle /\ AdvIdle /\ FinIdle /\ ApmIdle /\ DbIdle

NextCMA ==
    /\ \/ InputCostData
       \/ InputMarketData
       \/ CalculateBreakEvenCall
       \/ CalculateElasticityImpactCall
       \/ GeneratePricingRecommendationCall
    /\ UNCHANGED <<priceVars, supVars, engineVars, advVars, finVars, apmVars, dbVars>>

SpecCMA == InitCMA /\ [][NextCMA]_vars

\* ------------------------------------------------------------------------
\* Specification of the scenario tab (app.py, advanced model)
\* ------------------------------------------------------------------------
ApmFixedOverheads == {R(0), R(100)}
ApmExpectedUnits == {50}
ApmBasePrices == {R(0), R(3), R(4), R(6)}
ApmVolumes == {20}
ScenarioNames == {"conservative", "premium"}

CostStructures ==
    { [direct_materials |-> R(3), direct_labor |-> R(1), variable_overhead |-> R(0),
       fixed_overhead |-> fixed_overhead, rnd_costs |-> R(0), marketing_costs |-> R(0),
       administrative_costs |-> R(0), expected_units |-> expected_units,
       capacity_units |-> 2 * expected_units, production_cycle_days |-> 30] :
      fixed_overhead \in ApmFixedOverheads, expected_units \in ApmExpectedUnits }

Assumptions ==
    { [base_price |-> base_price, volume |-> volume, market_conditions |-> "stable"] :
      base_price \in ApmBasePrices, volume \in ApmVolumes } \cup {EmptyDict}

InputDetailedCostData ==
    \E cost_structure \in CostStructures :
        /\ apm' = input_detailed_cost_data(apm, cost_structure)
        /\ apm_args' = [op |-> "input_detailed_cost_data"]
        /\ apm_result' = None

CreatePricingScenarioCall ==
    \E scenario_name \in ScenarioNames, assumptions \in Assumptions :
        /\ apm' = create_pricing_scenario(apm, scenario_name, assumptions)
        /\ apm_args' = [op |-> "create_pricing_scenario", scenario_name |-> scenario_name]
        /\ apm_result' = apm'.scenarios[scenario_name]

InitScenario ==
    /\ apm = AdvancedPricingModel
    /\ apm_args = None
    /\ apm_result = None
    /\ PriceIdle /\ SupplierIdle /\ EngineIdle /\ AdvIdle /\ FinIdle /\ CmaIdle /\ DbIdle

NextScenario ==
    /\ \/ InputDetailedCostData
       \/ CreatePricingScenarioCall
    /\ UNCHANGED <<priceVars, supVars, engineVars, advVars, finVars, cmaVars, dbVars>>

SpecScenario == InitScenario /\ [][NextScenario]_vars

\* ---- claims about break-even analysis ----

BreakEvenCalled == cma_args # None /\ cma_args.op = "calculate_break_even"
ScenarioCreated == apm_args # None /\ apm_args.op = "create_pricing_scenario"
ScenarioContribution ==
    RSub(apm_result.analysis.base_price,
         DictGet(apm.cost_data, "variable_cost_per_unit", R(0)))

\* C15: a break-even analysis returns total_fixed_cost / (price -
\* variable_cost_per_unit) only when the price is above the variable cost per
\* unit; at or below it the analysis signals an error to the caller, and no
\* analysis yields an infinite or a negative break-even figure.
C15_BreakEvenOnlyWhenViable ==
    /\ BreakEvenCalled /\ "raised" \notin DOMAIN cma_result =>
        LET margin == RSub(cma_args.selling_price, cma.cost_data.variable_cost_per_unit)
        IN  IF RGt(margin, R(0))
            THEN /\ "error" \notin DOMAIN cma_result
                 /\ cma_result.break_even_units
                        = Round2(RDiv(cma.cost_data.total_fixed_cost, margin))
                 /\ RLe(R(0), cma_result.break_even_units)
            ELSE "error" \in DOMAIN cma_result
    /\ ScenarioCreated =>
        IF RGt(ScenarioContribution, R(0))
        THEN apm_result.analysis.break_even_point
                 = RDiv(DictGet(apm.cost_data, "total_fixed_costs", R(0)),
                        ScenarioContribution)
        ELSE /\ "error" \in DOMAIN apm_result.analysis
             /\ ~ IsInf(apm_result.analysis.break_even_point)

\* ------------------------------------------------------------------------
\* Specification of the financial pricing page (app_v2.py, FinancialEngine)
\* ------------------------------------------------------------------------
PlColumns == {"Account Level 1", "Account Level 2", "Amount"}

\* The ledger the page loads: empty with and without its columns, and two
\* months of expenses and revenue.
PlFrames ==
    { PlFrame(PlColumns, << >>),
      PlFrame({}, << >>),
      PlFrame(PlColumns, << PlRow("exp_tajhiz", -35000), PlRow("exp_gna", -20000),
                            PlRow("irad_tajhiz", 100000) >>),
      PlFrame(PlColumns, << PlRow("exp_shahn", -90000), PlRow("exp_takhzin", -15000),
                            PlRow("exp_tajhiz", -40000), PlRow("exp_gna", -10000) >>) }

\* The costs the page passes when no ledger is stored (app_v2.py)
PageDefaultCosts ==
    [fulfillment_cost_per_order |-> Rat(7, 2), storage_cost_per_order |-> Rat(3, 2),
     shipping_cost_per_order |-> R(10), overhead_cost_per_order |-> R(2),
     total_monthly_expense |-> R(60000), order_count |-> 10000]

\* pl_costs['return_rate'] = orders_stats['return_rate'], when orders are stored
ReturnRates == {R(0), R(20)}

PlCostsOfPage ==
    LET pl_costs == IF fin.pl_data # None THEN load_pl_costs(fin.pl_data)
                    ELSE PageDefaultCosts
    IN  {pl_costs} \cup { DictSet(pl_costs, "return_rate", rate) : rate \in ReturnRates }

MarginPcts == {R(-10), R(10), R(15), R(20), R(25), R(27), R(30)}
MinMargins == {R(10), R(15), R(30)}
RecommendedMargins == {R(10), R(25)}

ElasticityCases ==
    { [base_volume |-> 1000, price_range |-> <<R(90), R(110)>>],
      [base_volume |-> 1000, price_range |-> <<R(0), R(200)>>],
      [base_volume |-> 1000, price_range |-> <<R(3), R(5)>>],
      [base_volume |-> 50, price_range |-> <<R(3), R(5)>>] }
Elasticities == {Rat(-1, 2), Rat(-3, 2)}

LoadPlCosts ==
    \E pl_df \in PlFrames :
        /\ fin' = [fin EXCEPT !.pl_data = pl_df]
        /\ fin_args' = [op |-> "load_pl_costs"]
        /\ fin_result' = load_pl_costs(pl_df)

ComputeUnitCostCall ==
    \E scenario \in ScenarioKeys, pl_costs \in PlCostsOfPage \cup {None},
       include_return_cost \in BOOLEAN :
        /\ fin_args' = [op |-> "compute_unit_cost", scenario |-> scenario,
                        include_return_cost |-> include_return_cost]
        /\ fin_result' = compute_unit_cost(fin, scenario, pl_costs, include_return_cost)
        /\ UNCHANGED fin

RiskWarningCall ==
    \E margin_pct \in MarginPcts, min_margin \in MinMargins,
       recommended_margin \in RecommendedMargins :
        /\ fin_args' = [op |-> "risk_warning", margin_pct |-> margin_pct,
                        min_margin |-> min_margin,
                        recommended_margin |-> recommended_margin]
        /\ fin_result' = risk_warning(margin_pct, min_margin, recommended_margin)
        /\ UNCHANGED fin

PriceElasticityAnalysisCall ==
    \E case \in ElasticityCases, elasticity \in Elasticities :
        /\ fin_args' = [op |-> "price_elasticity_analysis",
                        base_volume |-> case.base_volume,
                        price_range |-> case.price_range,
                        elasticity |-> elasticity]
        /\ fin_result' = price_elasticity_analysis(R(2), case.base_volume,
                                                   case.price_range, elasticity)
        /\ UNCHANGED fin

InitFin ==
    /\ fin = FinancialEngine
    /\ fin_args = None
    /\ fin_result = None
    /\ PriceIdle /\ SupplierIdle /\ EngineIdle /\ AdvIdle /\ CmaIdle /\ ApmIdle /\ DbIdle

NextFin ==
    /\ \/ LoadPlCosts
       \/ ComputeUnitCostCall
       \/ RiskWarningCall
       \/ PriceElasticityAnalysisCall
    /\ UNCHANGED <<priceVars, supVars, engineVars, advVars, cmaVars, apmVars, dbVars>>

SpecFin == InitFin /\ [][NextFin]_vars

\* ---- claims about the elasticity analyses ----

ElasticityAnalysed == fin_args # None /\ fin_args.op = "price_elasticity_analysis"
ElasticityImpacted ==
    /\ cma_args # None /\ cma_args.op = "calculate_elasticity_impact"
    /\ "new_quantity" \in DOMAIN cma_result

\* The floor of a projected volume (100 by default)
FloorVolume == R(100)

\* base_volume * (1 + elasticity * price_change_pct), floored
ClaimedVolume(base_volume, elasticity, price_change_pct) ==
    RMax(RMul(R(base_volume), RAdd(R(1), RMul(elasticity, price_change_pct))),
         FloorVolume)

\* C16: for every candidate price change the projected volume is
\* max(base_volume * (1 + elasticity * price_change_pct), floor) with the floor
\* 100 by default, so it is never below the floor, never zero or negative
\* (base volume 1000, elasticity -1.5 and +10% give 850).
C16_VolumeNeverBelowFloor ==
    /\ ElasticityAnalysed =>
        \A i \in 1..Len(fin_result.rows) :
            LET base_price == RDiv(RAdd(fin_args.price_range[1], fin_args.price_range[2]),
                                   R(2))
                price_change_pct == RDiv(RSub(fin_result.rows[i].price, base_price),
                                         base_price)
            IN  fin_result.rows[i].estimated_volume
                    = TruncInt(ClaimedVolume(fin_args.base_volume, fin_args.elasticity,
                                             price_change_pct))
    /\ ElasticityImpacted =>
        /\ cma_result.new_quantity
               = ClaimedVolume(cma.cost_data.expected_units_sold,
                               cma.market_data.price_elasticity,
                               cma_args.price_change_percentage)
        /\ RLe(FloorVolume, cma_result.new_quantity)

\* ---- claims about the risk annotation ----

RiskAnnotated == fin_args # None /\ fin_args.op = "risk_warning"

ColourOfLevel(risk_level) ==
    CASE risk_level = "safe" -> "green"
      [] risk_level = "moderate" -> "orange"
      [] OTHER -> "red"

\* C17: a margin at or above the recommended margin is "safe", one from the
\* minimum up to the recommended margin is "moderate", one below the minimum
\* is "high"; every margin gets exactly one level, and risk_warning and
\* get_status_color agree (safe/green, moderate/orange, high/red).
C17_RiskClassification ==
    RiskAnnotated =>
        /\ fin_result.risk_level \in {"safe", "moderate", "high"}
        /\ RLe(fin_args.recommended_margin, fin_args.margin_pct)
               => fin_result.risk_level = "safe"
        /\ (RLe(fin_args.min_margin, fin_args.margin_pct)
              /\ RLt(fin_args.margin_pct, fin_args.recommended_margin))
               => fin_result.risk_level = "moderate"
        /\ RLt(fin_args.margin_pct, fin_args.min_margin)
               => fin_result.risk_level = "high"
        /\ fin_result.color = ColourOfLevel(fin_result.risk_level)
        /\ fin_result.color = get_status_color(fin_args.margin_pct, fin_args.min_margin,
                                               fin_args.recommended_margin)

\* ---- claims about rejection ----

BelowMinimum == RiskAnnotated /\ RLt(fin_args.margin_pct, fin_args.min_margin)

Round1(x) ==
    LET q == (10 * x.n) \div x.d
        rem == 10 * x.n - q * x.d
        up == 2 * rem > x.d \/ (2 * rem = x.d /\ q % 2 = 1)
    IN  Rat(IF up THEN q + 1 ELSE q, 10)

\* A value Python takes as true: neither absent (None) nor 0
Truthy(value) == value # None /\ value # R(0)

VolumeTier(monthly_volume) ==
    IF monthly_volume <= 1000 THEN "Standard"
    ELSE IF monthly_volume <= 5000 THEN "Professional"
    ELSE IF monthly_volume <= 15000 THEN "Business"
    ELSE "Enterprise"

\* The cost per order assumed when the ledger gives none (or one above 100)
MarketCostPerOrder(monthly_volume) ==
    IF monthly_volume <= 1000 THEN R(15)
    ELSE IF monthly_volume <= 5000 THEN R(12)
    ELSE IF monthly_volume <= 15000 THEN R(10)
    ELSE R(8)

\* The estimate of the monthly orders when no order history is stored
AssumedMonthlyOrders == 10000

LedgerCostPerOrder(self) ==
    IF self.profit_margins # EmptyDict
       /\ Truthy(DictGet(self.profit_margins, "total_expense", None))
    THEN LET total_expense == RAbs(self.profit_margins.total_expense)
         IN  IF self.orders_data # None /\ self.orders_data.count > 0
             THEN RDiv(total_expense, R(self.orders_data.count))
             ELSE IF Truthy(DictGet(self.profit_margins, "total_orders", None))
             THEN RDiv(total_expense, R(self.profit_margins.total_orders))
             ELSE RDiv(total_expense, R(AssumedMonthlyOrders))
    ELSE R(0)

\* The cost per order of the quote: the ledger's, or the market's when the
\* ledger gives 0 or more than 100
QuoteCostPerOrder(self, monthly_volume) ==
    LET ledger_cost == LedgerCostPerOrder(self)
    IN  IF ledger_cost = R(0) \/ RGt(ledger_cost, R(100))
        THEN MarketCostPerOrder(monthly_volume)
        ELSE ledger_cost

\* The historical margin taken as the target without its limits
QuoteTargetMargin_unclamped(self) ==
    IF Truthy(DictGet(self.profit_margins, "historical_margin", None))
    THEN RDiv(self.profit_margins.historical_margin, R(100))
    ELSE Rat(25, 100)

QuoteTargetMargin(self) ==
    IF Truthy(DictGet(self.profit_margins, "historical_margin", None))
    THEN RMax(Rat(20, 100),
              RMin(Rat(35, 100), RDiv(self.profit_margins.historical_margin, R(100))))
    ELSE Rat(25, 100)

\* created_at is the wall clock at the call; the model keeps it opaque.  The
\* except branch (return None) is not reached: profit_margins is always a dict
\* and the target margin is at most 0.35, so no statement of the try raises.
generate_quote(self, customer_name, service_type, monthly_volume, requirements) ==
    LET cost_per_order == QuoteCostPerOrder(self, monthly_volume)
        target_margin == QuoteTargetMargin(self)
        final_price == RDiv(cost_per_order, RSub(R(1), target_margin))
    IN  [customer_name |-> customer_name,
         tier |-> VolumeTier(monthly_volume),
         service_type |-> service_type,
         monthly_volume |-> monthly_volume,
         price |-> Round2(final_price),
         cost_breakdown |->
             [cost_per_order |-> Round2(cost_per_order),
              shipping_cost |-> Round2(RMul(cost_per_order, Rat(40, 100))),
              fulfillment_cost |-> Round2(RMul(cost_per_order, Rat(35, 100))),
              packaging_cost |-> Round2(RMul(cost_per_order, Rat(15, 100))),
              overhead_cost |-> Round2(RMul(cost_per_order, Rat(10, 100))),
              target_margin |-> Round1(RMul(target_margin, R(100))),
              profit_per_order |-> Round2(RSub(final_price, cost_per_order))],
         created_at |-> "datetime.now().isoformat()"]

\* ------------------------------------------------------------------------
\* Specification of the quote page (new_quote_system.py)
\* ------------------------------------------------------------------------
\* (income, expense) of the stored ledger; (0, 0) is a ledger with no rows.
QuoteLedgerTotals == { <<10, 6>>, <<10, 10>>, <<10, 12>>, <<0, 5>>, <<100, 40>>,
                       <<100, 800>>, <<0, 0>>, <<10, 7>>, <<100, 72>> }

QuoteLedger(income, expense) ==
    [rows |-> (IF income > 0 THEN << LedgerRow("income", "irad_tajhiz", income, "A") >>
               ELSE << >>)
           \o (IF expense > 0 THEN << LedgerRow("expense", "exp_tajhiz", -expense, "A") >>
               ELSE << >>)]

QuoteLedgers == { QuoteLedger(t[1], t[2]) : t \in QuoteLedgerTotals }

QuoteVolumes == {500, 3000, 10000, 20000}

IntegrateQuoteLedger ==
    \E pnl_df \in QuoteLedgers :
        /\ engine' = integrate_pnl_data(engine, pnl_df)
        /\ engine_args' = [op |-> "integrate_pnl_data"]
        /\ engine_result' = Self

GenerateQuoteCall ==
    \E monthly_volume \in QuoteVolumes :
        /\ engine_args' = [op |-> "generate_quote", monthly_volume |-> monthly_volume]
        /\ engine_result' = generate_quote(engine, "A", "fulfillment", monthly_volume,
                                           EmptyDict)
        /\ UNCHANGED engine

InitQuote ==
    /\ engine = UnifiedPricingEngine
    /\ engine_args = None
    /\ engine_result = None
    /\ PriceIdle /\ SupplierIdle /\ AdvIdle /\ ModelsIdle /\ DbIdle

NextQuote ==
    /\ \/ IntegrateQuoteLedger
       \/ IntegrateOrdersData
       \/ GenerateQuoteCall
    /\ UNCHANGED <<priceVars, supVars, advVars, finVars, cmaVars, apmVars, dbVars>>

SpecQuote == InitQuote /\ [][NextQuote]_vars

\* ---- claims about cost breakdowns ----

UnitCostComputed == fin_args # None /\ fin_args.op = "compute_unit_cost"
QuoteGenerated == engine_args # None /\ engine_args.op = "generate_quote"

\* C19: in every cost breakdown the components (fulfillment, storage,
\* shipping, overhead, return cost) are non-negative and the total is exactly
\* their sum, for every scenario and setting of include_return_cost; and the
\* component costs of the breakdown inside a generated quote sum to its
\* cost_per_order.
C19_BreakdownSumsToTotal ==
    /\ UnitCostComputed =>
        /\ \A c \in {"fulfillment_cost", "storage_cost", "shipping_cost",
                     "overhead_cost", "return_cost"} : RLe(R(0), fin_result[c])
        /\ fin_result.total_cost_per_order
               = RAdd(RAdd(RAdd(fin_result.fulfillment_cost, fin_result.storage_cost),
                           RAdd(fin_result.shipping_cost, fin_result.overhead_cost)),
                      fin_result.return_cost)
    /\ QuoteGenerated =>
        LET b == engine_result.cost_breakdown
        IN  /\ \A c \in {"shipping_cost", "fulfillment_cost", "packaging_cost",
                         "overhead_cost"} : RLe(R(0), b[c])
            /\ b.cost_per_order
                   = RAdd(RAdd(b.shipping_cost, b.fulfillment_cost),
                          RAdd(b.packaging_cost, b.overhead_cost))

\* ---- claims about an empty ledger ----

EmptyLedgerIntegrated ==
    /\ engine # None
    /\ engine.pnl_data # None
    /\ Len(engine.pnl_data.rows) = 0

EmptyFrameLoaded ==
    /\ fin_args # None /\ fin_args.op = "load_pl_costs"
    /\ Len(fin.pl_data.rows) = 0

\* C20: when the ledger is empty, cost extraction returns 0 for every
\* category total without raising, and the computations downstream accept
\* the zero totals without raising.
C20_EmptyLedgerZeroTotals ==
    /\ EmptyFrameLoaded =>
        \A total \in {"fulfillment_total", "storage_total", "shipping_total",
                      "overhead_total", "total_monthly_expense"} :
            fin_result[total] = R(0)
    /\ EmptyLedgerIntegrated =>
        /\ DOMAIN engine.cost_analysis = {"processing", "shipping", "storage", "receiving"}
        /\ \A category \in DOMAIN engine.cost_analysis :
               engine.cost_analysis[category] = R(0)
    /\ QuoteGenerated => "raised" \notin DOMAIN engine_result
    /\ UnitCostComputed => "raised" \notin DOMAIN fin_result

\* ------------------------------------------------------------------------
\* Specification of the stored orders (app_v2.py: the pricing page loads the
\* ledger and the orders of the store into the FinancialEngine)
\* ------------------------------------------------------------------------
OrderColumns == {"ORDER CREATED AT", "ORDER PACKED AT", "DESTINATION CITY", "RETURN STATUS"}

\* A stored order: created and packed at the given minutes (Missing when the
\* cell is empty)
OrderRow(created, packed, city, return_status) ==
    [c \in OrderColumns |->
        CASE c = "ORDER CREATED AT" -> created
          [] c = "ORDER PACKED AT"  -> packed
          [] c = "DESTINATION CITY" -> [text |-> city]
          [] OTHER                  -> return_status]

Date(m) == [date |-> m]

\* db.load_dataframe('orders'): orders packed an hour after, half an hour
\* before, a day after and more than a day after their creation, at the
\* minute of their creation and never; a table without the packing column,
\* one without the city column and one without rows.
RawOrdersFrames ==
    { OrdersFrame(OrderColumns,
          << OrderRow(Date(0), Date(60), "Riyadh", Missing),
             OrderRow(Date(100), Date(70), "Jeddah", [text |-> "returned"]) >>),
      OrdersFrame(OrderColumns,
          << OrderRow(Date(0), Date(1440), "Riyadh", Missing),
             OrderRow(Date(0), Date(2000), "Riyadh", Missing) >>),
      OrdersFrame(OrderColumns,
          << OrderRow(Date(5), Date(5), "Jeddah", Missing),
             OrderRow(Date(5), Missing, "Jeddah", Missing),
             OrderRow(Date(0), Date(90), "Riyadh", Missing) >>),
      OrdersFrame(OrderColumns \ {"ORDER PACKED AT"},
          << [c \in OrderColumns \ {"ORDER PACKED AT"} |->
                 OrderRow(Date(0), Missing, "Riyadh", Missing)[c]] >>),
      OrdersFrame(OrderColumns \ {"DESTINATION CITY"},
          << [c \in OrderColumns \ {"DESTINATION CITY"} |->
                 OrderRow(Date(0), Date(30), "Riyadh", Missing)[c]] >>),
      OrdersFrame(OrderColumns, << >>) }

\* load_orders_stats keeps the table it is passed (self.orders_data is the
\* caller's object) and adds the processing_time column to it.
LoadOrdersStats ==
    \E orders_df \in RawOrdersFrames :
        /\ fin' = [fin EXCEPT !.orders_data = OrdersAfterStats(orders_df)]
        /\ fin_args' = [op |-> "load_orders_stats", orders_df |-> orders_df]
        /\ fin_result' = load_orders_stats(orders_df)

\* app_v2.py: the stored orders are cleaned and handed to the engine; the
\* engine keeps the cleaned table, which is the loaded table itself.
LoadSavedOrders ==
    \E orders_df \in RawOrdersFrames :
        /\ engine' = integrate_orders_data(engine, clean_orders_data(orders_df))
        /\ engine_args' = [op |-> "clean_orders_data", orders_df |-> orders_df]
        /\ engine_result' = Self

\* db.load_dataframe('capacity'): the capacity of two services, one of them 0
SavedCapacityTables ==
    { [rows |-> << [service_name |-> ServiceName(1), capacity_per_month |-> 0,
                    monthly_cost |-> R(60)],
                   [service_name |-> ServiceName(2), capacity_per_month |-> 3,
                    monthly_cost |-> R(60)] >>],
      [rows |-> << [service_name |-> ServiceName(1), capacity_per_month |-> 3,
                    monthly_cost |-> R(60)] >>] }

\* app_v2.py: the stored capacity table is handed to the engine, which
\* keeps the table it is passed.
IntegrateSavedCapacity ==
    \E capacity_df \in SavedCapacityTables :
        /\ engine' = integrate_capacity_data(engine, capacity_df)
        /\ engine_args' = [op |-> "integrate_capacity_data", capacity_df |-> capacity_df]
        /\ engine_result' = Self

InitOrders ==
    /\ fin = FinancialEngine
    /\ fin_args = None
    /\ fin_result = None
    /\ engine = UnifiedPricingEngine
    /\ engine_args = None
    /\ engine_result = None
    /\ PriceIdle /\ SupplierIdle /\ AdvIdle /\ CmaIdle /\ ApmIdle /\ DbIdle

NextOrders ==
    \/ /\ \/ LoadPlCosts
          \/ LoadOrdersStats
       /\ UNCHANGED <<priceVars, supVars, engineVars, advVars, cmaVars, apmVars, dbVars>>
    \/ /\ \/ LoadSavedOrders
          \/ IntegrateSavedCapacity
       /\ UNCHANGED <<priceVars, supVars, advVars, finVars, cmaVars, apmVars, dbVars>>

SpecOrders == InitOrders /\ [][NextOrders]_vars

\* ---- claims about the cost per order ----

PlCostsLoaded ==
    /\ fin_args # None /\ fin_args.op = "load_pl_costs"
    /\ {"Account Level 2", "Amount"} \subseteq fin.pl_data.columns

\* The number of historical orders the engine holds
ObservedOrders(self) == IF self.orders_data = None THEN 0 ELSE self.orders_data.count

\* C21: the category total extracted from the ledger is the magnitude of the
\* sum of the matching entries, and the cost per order is that total divided
\* by the number of historical orders actually observed.
C21_CostPerOrderFromObservedOrders ==
    /\ PlCostsLoaded =>
        /\ fin_result.shipping_total
             = RAbs(SumAmount(RowsWithL2(fin.pl_data.rows, "shahn")))
        /\ ObservedOrders(fin) > 0 =>
             fin_result.shipping_cost_per_order
               = RDiv(fin_result.shipping_total, R(ObservedOrders(fin)))
    /\ (QuoteGenerated /\ ObservedOrders(engine) > 0
          /\ LedgerCostPerOrder(engine) # R(0)
          /\ RLe(LedgerCostPerOrder(engine), R(100))) =>
        engine_result.cost_breakdown.cost_per_order
          = Round2(RDiv(RAbs(engine.profit_margins.total_expense),
                        R(ObservedOrders(engine))))

\* ---- claims about preparation times ----

OrdersCleaned == engine_args # None /\ engine_args.op = "clean_orders_data"
OrdersStatsLoaded == fin_args # None /\ fin_args.op = "load_orders_stats"

\* packed minus created, in minutes, of the rows of a stored table whose
\* difference exists and lies in [0, 1440]
PrepTimesWithinDay(orders_df) ==
    LET delta(row) == Timedelta(to_datetime(row["ORDER PACKED AT"]),
                                to_datetime(row["ORDER CREATED AT"]))
        kept == SelectSeq(orders_df.rows,
                    LAMBDA row : /\ delta(row) # NaT
                                 /\ RLe(R(0), delta(row).minutes)
                                 /\ RLe(delta(row).minutes, R(MaxPrepMinutes)))
    IN  [i \in 1..Len(kept) |-> delta(kept[i]).minutes]

\* C22: the preparation time is packed minus created in minutes; a value
\* below 0 or above 1440 is discarded, not clamped, so every value that
\* enters the processing-time statistics lies in [0, 1440].
C22_PrepTimesWithinDay ==
    /\ (OrdersCleaned /\ HasTimes(engine_args.orders_df)) =>
        /\ ValidPrepTimes(engine.orders_data) = PrepTimesWithinDay(engine_args.orders_df)
        /\ engine.prep_time_analysis.total_orders_analyzed
             = Len(PrepTimesWithinDay(engine_args.orders_df))
        /\ RLe(R(0), engine.prep_time_analysis.min_prep_time)
        /\ RLe(engine.prep_time_analysis.max_prep_time, R(MaxPrepMinutes))
    /\ (OrdersStatsLoaded /\ HasTimes(fin_args.orders_df)
          /\ ~OrdersStatsRaises(fin_args.orders_df)) =>
        LET within == PrepTimesWithinDay(fin_args.orders_df)
        IN  fin_result.avg_processing_hours
              = IF Len(within) = 0 THEN NaN
                ELSE RDiv(RDiv(SumSeqR(within), R(Len(within))), R(60))

\* ---- claims about the tables of the caller ----

CapacityIntegrated ==
    /\ engine_args # None /\ engine_args.op = "integrate_capacity_data"
    /\ "capacity_df" \in DOMAIN engine_args

\* C23: no pricing operation mutates the tables supplied by the caller.  The
\* engine keeps the very object it was passed (self.capacity_data,
\* self.orders_data, and the table clean_orders_data returns), so the table
\* the caller holds after the call is the one the engine holds; it has
\* exactly the columns and values it was passed with.
C23_CallerTablesUnchanged ==
    /\ CapacityIntegrated => engine.capacity_data = engine_args.capacity_df
    /\ OrdersStatsLoaded => fin.orders_data = fin_args.orders_df
    /\ OrdersCleaned => engine.orders_data = engine_args.orders_df

\* ---- claims about the smart quote ----

\* C24: in smart quote generation the target margin always lies in the range
\* 20% to 35% and the final price equals cost_per_order / (1 - target
\* margin), for every historical margin found in the ledger and every
\* monthly volume.  The quote reports the margin in percent with one
\* decimal and the price with two.
C24_TargetMarginInRange ==
    QuoteGenerated =>
        LET b == engine_result.cost_breakdown
            cost_per_order == QuoteCostPerOrder(engine, engine_args.monthly_volume)
        IN  /\ RLe(R(20), b.target_margin)
            /\ RLe(b.target_margin, R(35))
            /\ engine_result.price
                 = Round2(RDiv(cost_per_order,
                               RSub(R(1), RDiv(b.target_margin, R(100)))))

\* A ledger whose margin of 40 % is above the range: the quote takes 35 %.
C24_Witness ==
    /\ QuoteGenerated
    /\ engine.profit_margins # EmptyDict
    /\ engine.profit_margins.historical_margin = R(40)
    /\ engine_result.cost_breakdown.target_margin = R(35)
    /\ engine_result.cost_breakdown.cost_per_order = Rat(3, 2)
    /\ engine_result.price = Rat(231, 100)

\* ------------------------------------------------------------------------
\* DatabaseManager (database_manager.py): the quotes table
\* ------------------------------------------------------------------------
\* The store after create_tables on a new file: the quotes table has no row.
\* A row is [id, quote_id, customer_name, service_type, total_price,
\* data_json, created_at]; quote_id is UNIQUE NOT NULL.
DatabaseManager == [quotes |-> << >>]

\* f"Q{datetime.now().strftime('%Y%m%d%H%M%S')}": one id per second
QuoteIdAt(now) == [Q |-> now]

\* The UNIQUE constraint on quote_id fails the INSERT
QuoteIdTaken(self, quote_id) ==
    \E i \in 1..Len(self.quotes) : self.quotes[i].quote_id = quote_id

QuoteRow(self, quote_data, now) ==
    [id |-> Len(self.quotes) + 1,
     quote_id |-> QuoteIdAt(now),
     customer_name |-> DictGet(quote_data, "customer", ""),
     service_type |-> DictGet(quote_data, "service_type", ""),
     total_price |-> DictGet(quote_data, "grand_total", R(0)),
     data_json |-> quote_data,
     created_at |-> now]

\* An INSERT that no constraint checks
save_quote_unchecked(self, quote_data, now) ==
    [db |-> [self EXCEPT !.quotes = Append(@, QuoteRow(self, quote_data, now))],
     ret |-> QuoteIdAt(now)]

\* DatabaseManager.save_quote: the store it leaves and the value it returns.
\* The failed INSERT raises inside the try; the except branch returns None.
save_quote(self, quote_data, now) ==
    IF QuoteIdTaken(self, QuoteIdAt(now))
    THEN [db |-> self, ret |-> None]
    ELSE [db |-> [self EXCEPT !.quotes = Append(@, QuoteRow(self, quote_data, now))],
          ret |-> QuoteIdAt(now)]

\* ------------------------------------------------------------------------
\* Specification of the saved quotes (app_v2.py: the Save Quote button)
\* ------------------------------------------------------------------------
\* The last second of the clock the model follows
MaxClock == 2

\* The quote the page saves, and a dict without the keys save_quote reads
QuoteData ==
    { [customer |-> "new customer", service_type |-> "comprehensive",
       grand_total |-> R(25)],
      [scenario |-> "fulfillment_riyadh"] }

SaveQuote ==
    \E quote_data \in QuoteData :
        LET saved == save_quote(db, quote_data, clock)
        IN  /\ db' = saved.db
            /\ db_args' = [op |-> "save_quote", quote_data |-> quote_data, now |-> clock]
            /\ db_result' = saved.ret
            /\ UNCHANGED clock

\* A second passes
Tick ==
    /\ clock < MaxClock
    /\ clock' = clock + 1
    /\ UNCHANGED <<db, db_args, db_result>>

\* datetime.now() is the local wall clock, which the system may set back
ClockSetBack ==
    /\ \E earlier \in 0..(clock - 1) : clock' = earlier
    /\ UNCHANGED <<db, db_args, db_result>>

InitSaved ==
    /\ db = DatabaseManager
    /\ db_args = None
    /\ db_result = None
    /\ clock = 0
    /\ PriceIdle /\ SupplierIdle /\ EngineIdle /\ AdvIdle /\ ModelsIdle

NextSaved ==
    /\ \/ SaveQuote
       \/ Tick
       \/ ClockSetBack
    /\ UNCHANGED <<priceVars, supVars, engineVars, advVars, finVars, cmaVars, apmVars>>

SpecSaved == InitSaved /\ [][NextSaved]_vars

\* ---- claims about the saved quotes ----

QuoteSaveCalled == db_args # None /\ db_args.op = "save_quote"

QuoteIdsDistinct ==
    \A i, j \in 1..Len(db.quotes) :
        db.quotes[i].quote_id = db.quotes[j].quote_id => i = j

\* C25: for any sequence of save_quote calls the quote_id values stored in
\* the quotes table are pairwise distinct; a save_quote issued in the same
\* second as an earlier successful save returns None and leaves the quotes
\* table unchanged.
C25_QuoteIdsDistinct ==
    /\ []QuoteIdsDistinct
    /\ [][(QuoteSaveCalled' /\ clock' = clock /\ QuoteIdTaken(db, QuoteIdAt(clock)))
             => (db_result' = None /\ db' = db)]_vars

\* A second save in the second of a stored quote was turned down
C25_Witness ==
    /\ QuoteSaveCalled
    /\ db_result = None
    /\ \E i \in 1..Len(db.quotes) :
          /\ db.quotes[i].quote_id = QuoteIdAt(db_args.now)
          /\ db.quotes[i].data_json # db_args.quote_data

\* C26: every quote returned by generate_quote has 0 < cost_per_order <= 100:
\* a ledger cost of 0 or above 100 is replaced by the default of the volume
\* (15, 12, 10 or 8), and the returned price is strictly greater than
\* cost_per_order.
C26_QuoteCostWithinBounds ==
    QuoteGenerated =>
        LET b == engine_result.cost_breakdown
            ledger_cost == LedgerCostPerOrder(engine)
        IN  /\ RLt(R(0), b.cost_per_order)
            /\ RLe(b.cost_per_order, R(100))
            /\ (ledger_cost = R(0) \/ RGt(ledger_cost, R(100))) =>
                 b.cost_per_order = MarketCostPerOrder(engine_args.monthly_volume)
            /\ RGt(engine_result.price, b.cost_per_order)

\* ---- claims about the order of the integrations ----

LedgerIntegratedLast == engine_args # None /\ engine_args.op = "integrate_pnl_data"
CustomersIntegratedLast ==
    engine_args # None /\ engine_args.op = "integrate_customers_data"

\* C27: integrate_pnl_data replaces the whole customer profitability table
\* with one rebuilt from the new ledger (only customers with positive
\* income), so the customers and the fields type, monthly_volume and
\* contract_type merged before by integrate_customers_data are removed; the
\* two operations do not commute: after the ledger and then a customers
\* table with rows, the table differs from the one the other order leaves.
C27_LedgerReplacesCustomers ==
    /\ LedgerIntegratedLast =>
        \A c \in DOMAIN engine.customer_profitability :
            LET entry == engine.customer_profitability[c]
            IN  /\ c \in LedgerCustomers(engine.pnl_data.rows)
                /\ DOMAIN entry = {"income", "expense", "profit", "margin", "tier"}
                /\ RGt(entry.income, R(0))
                /\ entry.tier = get_customer_tier(entry.margin)
    /\ (CustomersIntegratedLast /\ engine.pnl_data # None
          /\ Len(engine.customers_data.rows) > 0) =>
        engine.customer_profitability
          # integrate_pnl_data(engine, engine.pnl_data).customer_profitability

\* Customer C was merged from a customers table; the ledger integrated after
\* it leaves customer A alone, with the tier of its margin.
C27_Witness ==
    /\ LedgerIntegratedLast
    /\ engine.customers_data # None
    /\ \E i \in 1..Len(engine.customers_data.rows) :
          engine.customers_data.rows[i].customer_name = "C"
    /\ DOMAIN engine.customer_profitability = {"A"}
    /\ engine.customer_profitability["A"].tier = "Good"

\* ---- claims about the category costs of the allocation ----

\* The signed sum of the amounts of every row whose label holds the keyword
RECURSIVE SignedSumOfKeyword(_, _)
SignedSumOfKeyword(rows, kw) ==
    IF Len(rows) = 0 THEN R(0)
    ELSE RAdd(IF kw \in L2Keywords(rows[1].l2) THEN rows[1].net_amount ELSE R(0),
              SignedSumOfKeyword(Tail(rows), kw))

\* The keyword of the category the i-th service of the table is charged with
KeywordOfService(i) ==
    CASE i = 1 -> "tajhiz"
      [] i = 2 -> "shahn"
      [] i = 3 -> "takhzin"

\* C28: in calculate_advanced_cost_allocation each category cost is the
\* absolute value of the signed sum over every ledger row whose second-level
\* label contains the category keyword, income and expense rows alike; a
\* row whose label contains several keywords counts in each of them, and a
\* row containing none counts in no category.
C28_CategoryCostIsSignedSum ==
    (AllocationReturned /\ engine_result # None) =>
        /\ \A i \in 1..Len(engine_result.rows) :
              i <= 3 => engine_result.rows[i].monthly_cost_before_gna
                          = RAbs(SignedSumOfKeyword(engine.pnl_data.rows,
                                                    KeywordOfService(i)))
        /\ \A i \in 1..Len(engine_result.rows) :
              engine_result.rows[i].capacity_per_month > 0 =>
                  RMul(engine_result.rows[i].gna_allocation,
                       R(SumCapacity(engine.capacity_data.rows)))
                    = RMul(R(engine_result.rows[i].capacity_per_month),
                           RAbs(SignedSumOfKeyword(engine.pnl_data.rows, "gna")))

\* Revenue 100 and expense 40 of fulfillment give 60; the row labelled with
\* shipping and storage (-9) counts in both: shipping |-9 + 4| = 5, storage 9.
C28_Witness ==
    /\ AllocationReturned /\ engine_result # None
    /\ Len(engine_result.rows) >= 3
    /\ engine_result.rows[1].monthly_cost_before_gna = R(60)
    /\ engine_result.rows[2].monthly_cost_before_gna = R(5)
    /\ engine_result.rows[3].monthly_cost_before_gna = R(9)

\* ---- claims about supplier rows of the same name ----

\* What calculate_shipping_cost computes for one row of the table
EntryOfRow(row) ==
    ShippingEntry(row, RegionRate(row), sup_args.weight, sup_args.order_value,
                  sup_args.is_cod, IsRiyadh(sup_args.city))

\* C29: calculate_shipping_cost keys its result by supplier name, so of
\* several shipping rows with the same name only the last one (in table
\* order) that serves the region is compared, and
\* get_best_shipping_supplier can return a supplier whose total_cost is
\* higher than that of an earlier row with the same name.
C29_LastRowOfNameCompared ==
    sup_args # None =>
        /\ \A i, j \in 1..Len(sup_costs) :
              sup_costs[i].supplier_name = sup_costs[j].supplier_name => i = j
        /\ { sup_costs[i].supplier_name : i \in 1..Len(sup_costs) }
             = { nm \in SupplierNames : SourceRows(nm) # {} }
        /\ \A i \in 1..Len(sup_costs) :
              sup_costs[i] = EntryOfRow(SourceRow(sup_costs[i].supplier_name))
        /\ sup_best # None =>
              sup_best = EntryOfRow(SourceRow(sup_best.supplier_name))

\* The supplier returned costs more than an earlier row of the same name
C29_Witness ==
    /\ sup_args # None
    /\ sup_best # None
    /\ \E i \in SourceRows(sup_best.supplier_name) :
          /\ suppliers[i] # SourceRow(sup_best.supplier_name)
          /\ RLt(EntryOfRow(suppliers[i]).total_cost, sup_best.total_cost)

\* ---- claims about the best-choice mark ----

\* C30: in price_elasticity_analysis a price point is marked as the best
\* choice exactly when its profit is greater than or equal to the profit of
\* every price point evaluated before it (a running maximum over the five
\* ascending prices), so more than one row can carry the mark and a marked
\* row need not have the maximum profit of the whole table.
C30_BestMarkIsRunningMaximum ==
    ElasticityAnalysed =>
        /\ Len(fin_result.rows) = 5
        /\ \A i \in 1..4 : RLe(fin_result.rows[i].price, fin_result.rows[i + 1].price)
        /\ \A i \in 1..5 :
              fin_result.rows[i].choice = "best"
                <=> \A j \in 1..(i - 1) :
                        RLe(fin_result.rows[j].profit, fin_result.rows[i].profit)

\* Three rows carry the mark, and the first of them has less profit than the
\* third.
C30_Witness ==
    /\ ElasticityAnalysed
    /\ Cardinality({ i \in 1..5 : fin_result.rows[i].choice = "best" }) = 3
    /\ fin_result.rows[1].choice = "best"
    /\ fin_result.rows[3].choice = "best"
    /\ RLt(fin_result.rows[1].profit, fin_result.rows[3].profit)
    /\ fin_result.rows[5].choice = ""

====
